---- MODULE Spec2Model ----
(***************************************************************************)
(* Rate-card cost estimation and calibration engine of panoptic-backend.   *)
(*                                                                         *)
(* Numbers.  JavaScript numbers are modelled as exact fixed-point values:  *)
(*   - a calibration multiplier x is the integer x * MultDen;              *)
(*   - a rounded monetary value is an integer count of grid units, one     *)
(*     grid unit being 10^-roundingPrecision of the currency;              *)
(*   - an unrounded monetary value (price, minimum charge, raw cost) is an *)
(*     integer count of 1/PriceDen grid units.                             *)
(* Wall-clock timestamps are reduced to "set" / undefined.                 *)
(***************************************************************************)
EXTENDS Integers, Sequences, FiniteSets, TLC

VARIABLES
    cardsById,              \* RateCardRegistry.cardsById: id -> card object
    cardsByKey,             \* RateCardRegistry.cardsByKey: key -> card object
    calibrationHistory,     \* RateCardRegistry.calibrationHistory: id -> entries
    calibrationMultiplier,  \* RateCard.calibrationMultiplier of every card object
    lastCalibratedAt,       \* RateCard.lastCalibratedAt of every card object
    appendLog,              \* observer: id -> every entry appended since the last clear()
    gen,                    \* the generateStatement call in flight: its position and locals
    ret                     \* the operation that ran last and what it returned

vars == <<cardsById, cardsByKey, calibrationHistory, calibrationMultiplier,
          lastCalibratedAt, appendLog, gen, ret>>

registryVars == <<cardsById, cardsByKey, calibrationHistory,
                  calibrationMultiplier, lastCalibratedAt>>

(***************************************************************************)
(* Bounds of the model.                                                    *)
(***************************************************************************)
MultDen == 10
PriceDen == 2
MaxAppends == 7
MaxQuantity == 4
MaxTiers == 2
MaxRoundInput == 40
MaxAnalysed == 2

(***************************************************************************)
(* JavaScript values.                                                      *)
(***************************************************************************)
NoValue == "undefined"

\* null, where the other values a function returns are objects.
Null == [null |-> TRUE]

Falsy(x) == x = NoValue \/ x = ""

Min(a, b) == IF a <= b THEN a ELSE b

Max(a, b) == IF a >= b THEN a ELSE b

Abs(a) == IF a >= 0 THEN a ELSE -a

MapGet(m, k) == IF k \in DOMAIN m THEN m[k] ELSE NoValue

MapSet(m, k, v) == [x \in DOMAIN m \cup {k} |-> IF x = k THEN v ELSE m[x]]

MapDelete(m, k) == [x \in DOMAIN m \ {k} |-> m[x]]

EmptyMap == [x \in {} |-> NoValue]

\* No generateStatement call has been made.
GenIdle == [pc |-> "idle"]

\* Math.round(n / den) for den > 0: floor(x + 0.5).
MathRound(n, den) == (2 * n + den) \div (2 * den)

\* String.prototype.toLowerCase on the strings the model uses.
toLowerCase(s) ==
    CASE s = "GCP" -> "gcp"
      [] s = "CLOUD-RUN" -> "cloud-run"
      [] s = "FIRESTORE" -> "firestore"
      [] s = "S1" -> "s1"
      [] OTHER -> s

(***************************************************************************)
(* Calibration configuration (DEFAULT_CALIBRATION_CONFIG).                 *)
(***************************************************************************)
One == MultDen

maxMultiplierChange == MultDen \div 5

lookbackPeriods == 3

(***************************************************************************)
(* The card objects callers hand to the registry.  A card object keeps its *)
(* identity (and its multiplier) whether or not it is registered.          *)
(***************************************************************************)
CardRefs == {"r1", "r2", "r3", "r4", "r5", "r6", "r7"}

\* Pricing rules.  An optional field of the source (customUnit, pricePerUnit,
\* tiers, minimumCharge, freeAllowance) is a field the record may lack; a
\* tier with max: null is a tier record without the field max.
CpuRule == [id |-> "cpu", unit |-> "cpu_seconds", pricePerUnit |-> 1, freeAllowance |-> 2]

RequestRule == [id |-> "req", unit |-> "requests", pricePerUnit |-> 3, minimumCharge |-> 5]

EgressRule ==
    [id |-> "egress", unit |-> "custom", customUnit |-> "egress_gb",
     tiers |-> << [min |-> 1, max |-> 2, pricePerUnit |-> 3],
                  [min |-> 0, max |-> 1, pricePerUnit |-> 0],
                  [min |-> 2, pricePerUnit |-> 1] >>]

RateCard(r) ==
    CASE r = "r1" -> [id |-> "a", provider |-> "gcp", service |-> "cloud-run", sku |-> NoValue,
                      rules |-> <<CpuRule, EgressRule>>]
      [] r = "r2" -> [id |-> "b", provider |-> "GCP", service |-> "CLOUD-RUN", sku |-> "s1",
                      rules |-> <<RequestRule, CpuRule>>]
      [] r = "r3" -> [id |-> "c", provider |-> "gcp", service |-> "cloud-run", sku |-> "S1",
                      rules |-> <<RequestRule>>]
      [] r = "r4" -> [id |-> "d", provider |-> "gcp", service |-> "cloud-run", sku |-> NoValue,
                      rules |-> <<CpuRule>>]
      [] r = "r5" -> [id |-> "", provider |-> "gcp", service |-> "cloud-run", sku |-> NoValue,
                      rules |-> <<>>]
      [] r = "r6" -> [id |-> "e", provider |-> NoValue, service |-> "cloud-run", sku |-> NoValue,
                      rules |-> <<>>]
      [] r = "r7" -> [id |-> "e", provider |-> "gcp", service |-> "", sku |-> "s1",
                      rules |-> <<>>]

Ids == {"a", "b", "c", "d", "e", "zz"}

Providers == {"gcp", "GCP", "aws"}

Services == {"cloud-run", "CLOUD-RUN", "firestore"}

Skus == {NoValue, "", "s1", "S1", "*"}

(***************************************************************************)
(* RateCardRegistry                                                        *)
(***************************************************************************)
generateKey_noLower(provider, service, sku) ==
    provider \o ":" \o service \o ":" \o (IF Falsy(sku) THEN "*" ELSE sku)

generateKey(provider, service, sku) ==
    toLowerCase(provider) \o ":" \o toLowerCase(service) \o ":"
        \o (IF Falsy(sku) THEN "*" ELSE toLowerCase(sku))

\* register, lines 84-92: the two checks that throw.
registerThrows_noServiceCheck(card) ==
    IF Falsy(card.id) \/ Falsy(card.provider)
    THEN "must have id, provider, and service"
    ELSE IF card.id \in DOMAIN cardsById THEN "already exists" ELSE NoValue

registerThrows(card) ==
    IF Falsy(card.id) \/ Falsy(card.provider) \/ Falsy(card.service)
    THEN "must have id, provider, and service"
    ELSE IF card.id \in DOMAIN cardsById THEN "already exists" ELSE NoValue

\* register, lines 101-107: the sku-less fallback slot.
registerFallback(byKey, r) ==
    LET keyWithoutSku == generateKey(RateCard(r).provider, RateCard(r).service, NoValue)
    IN  IF ~Falsy(RateCard(r).sku) /\ keyWithoutSku \notin DOMAIN byKey
        THEN MapSet(byKey, keyWithoutSku, r)
        ELSE byKey

\* register giving the id an empty history whether or not it has one.
initHistory_always(history, id) == MapSet(history, id, <<>>)

\* register, lines 109-112: an empty history for an id that has none.
initHistory(history, id) ==
    IF id \in DOMAIN history THEN history ELSE MapSet(history, id, <<>>)

Register(r) ==
    LET card == RateCard(r)
        threw == registerThrows(card)
    IN  /\ ret' = [op |-> "register", card |-> r, val |-> threw]
        /\ IF threw # NoValue
           THEN UNCHANGED <<cardsById, cardsByKey, calibrationHistory>>
           ELSE /\ cardsById' = MapSet(cardsById, card.id, r)
                /\ cardsByKey' = registerFallback(
                       MapSet(cardsByKey, generateKey(card.provider, card.service, card.sku), r), r)
                /\ calibrationHistory' = initHistory(calibrationHistory, card.id)
        /\ UNCHANGED <<calibrationMultiplier, lastCalibratedAt, appendLog, gen>>

find(provider, service, sku) ==
    LET exactKey == generateKey(provider, service, sku)
        fallbackKey == generateKey(provider, service, NoValue)
    IN  IF ~Falsy(sku) /\ MapGet(cardsByKey, exactKey) # NoValue
        THEN MapGet(cardsByKey, exactKey)
        ELSE MapGet(cardsByKey, fallbackKey)

findById(id) == MapGet(cardsById, id)

\* list(): the registered card objects (Map order is not modelled).
list == {cardsById[id] : id \in DOMAIN cardsById}

listLength == Cardinality(DOMAIN cardsById)

\* remove(id) deleting the id and the card's exact key only.
Remove_leavesFallback(id) ==
    LET r == findById(id)
        card == RateCard(r)
    IN  /\ ret' = [op |-> "remove", val |-> r # NoValue]
        /\ IF r = NoValue
           THEN UNCHANGED <<cardsById, cardsByKey>>
           ELSE /\ cardsById' = MapDelete(cardsById, id)
                /\ cardsByKey' =
                       MapDelete(cardsByKey, generateKey(card.provider, card.service, card.sku))
        /\ UNCHANGED <<calibrationHistory, calibrationMultiplier, lastCalibratedAt, appendLog, gen>>

Remove(id) ==
    LET r == findById(id)
        card == RateCard(r)
        afterKey == MapDelete(cardsByKey, generateKey(card.provider, card.service, card.sku))
        fallbackKey == generateKey(card.provider, card.service, NoValue)
        fallbackCard == MapGet(afterKey, fallbackKey)
    IN  /\ ret' = [op |-> "remove", val |-> r # NoValue]
        /\ IF r = NoValue
           THEN UNCHANGED <<cardsById, cardsByKey>>
           ELSE /\ cardsById' = MapDelete(cardsById, id)
                /\ cardsByKey' =
                       IF fallbackCard # NoValue /\ RateCard(fallbackCard).id = id
                       THEN MapDelete(afterKey, fallbackKey)
                       ELSE afterKey
        /\ UNCHANGED <<calibrationHistory, calibrationMultiplier, lastCalibratedAt, appendLog, gen>>

Clear ==
    /\ ret' = [op |-> "clear", val |-> NoValue]
    /\ cardsById' = EmptyMap
    /\ cardsByKey' = EmptyMap
    /\ calibrationHistory' = EmptyMap
    /\ appendLog' = EmptyMap
    /\ UNCHANGED <<calibrationMultiplier, lastCalibratedAt, gen>>

\* calibrate, lines 204-207: the additive clamp.
clampMultiplier_none(currentMultiplier, maxChange, multiplier) == multiplier

clampMultiplier(currentMultiplier, maxChange, multiplier) ==
    Max(currentMultiplier - maxChange, Min(currentMultiplier + maxChange, multiplier))

\* calibrate(id, multiplier) clamping around a multiplier read before the
\* writes of other calls (the 1.0 of registration) and not the stored one.
Calibrate_fromEarlierRead(id, multiplier) ==
    LET r == findById(id)
    IN  /\ ret' = [op |-> "calibrate", val |-> r # NoValue]
        /\ IF r = NoValue
           THEN UNCHANGED <<calibrationMultiplier, lastCalibratedAt>>
           ELSE /\ calibrationMultiplier' =
                       [calibrationMultiplier EXCEPT ![r] =
                           clampMultiplier(One, maxMultiplierChange, multiplier)]
                /\ lastCalibratedAt' = [lastCalibratedAt EXCEPT ![r] = "set"]
        /\ UNCHANGED <<cardsById, cardsByKey, calibrationHistory, appendLog, gen>>

\* calibrate(id, multiplier) reporting success whether or not the id is known.
Calibrate_reportsSuccess(id, multiplier) ==
    LET r == findById(id)
    IN  /\ ret' = [op |-> "calibrate", val |-> TRUE]
        /\ IF r = NoValue
           THEN UNCHANGED <<calibrationMultiplier, lastCalibratedAt>>
           ELSE /\ calibrationMultiplier' =
                       [calibrationMultiplier EXCEPT ![r] =
                           clampMultiplier(calibrationMultiplier[r], maxMultiplierChange, multiplier)]
                /\ lastCalibratedAt' = [lastCalibratedAt EXCEPT ![r] = "set"]
        /\ UNCHANGED <<cardsById, cardsByKey, calibrationHistory, appendLog, gen>>

Calibrate(id, multiplier) ==
    LET r == findById(id)
    IN  /\ ret' = [op |-> "calibrate", val |-> r # NoValue]
        /\ IF r = NoValue
           THEN UNCHANGED <<calibrationMultiplier, lastCalibratedAt>>
           ELSE /\ calibrationMultiplier' =
                       [calibrationMultiplier EXCEPT ![r] =
                           clampMultiplier(calibrationMultiplier[r], maxMultiplierChange, multiplier)]
                /\ lastCalibratedAt' = [lastCalibratedAt EXCEPT ![r] = "set"]
        /\ UNCHANGED <<cardsById, cardsByKey, calibrationHistory, appendLog, gen>>

getCalibrationHistory(id) ==
    IF id \in DOMAIN calibrationHistory THEN calibrationHistory[id] ELSE <<>>

\* addCalibrationData, lines 231-234: keep the most recent maxHistory entries.
trimHistory_keepOldest(history, maxHistory) ==
    IF Len(history) > maxHistory THEN SubSeq(history, 1, maxHistory) ELSE history

trimHistory(history, maxHistory) ==
    IF Len(history) > maxHistory
    THEN SubSeq(history, Len(history) - maxHistory + 1, Len(history))
    ELSE history

\* addCalibrationData(data) applied to the history map hist.
addCalibrationData(hist, data) ==
    LET history == Append(IF data.rateCardId \in DOMAIN hist THEN hist[data.rateCardId] ELSE <<>>,
                          data)
    IN  MapSet(hist, data.rateCardId, trimHistory(history, lookbackPeriods * 2))

logAppend(log, data) ==
    MapSet(log, data.rateCardId,
           Append(IF data.rateCardId \in DOMAIN log THEN log[data.rateCardId] ELSE <<>>, data))

AddCalibrationData(data) ==
    /\ ret' = [op |-> "addCalibrationData", val |-> NoValue]
    /\ calibrationHistory' = addCalibrationData(calibrationHistory, data)
    /\ appendLog' = logAppend(appendLog, data)
    /\ UNCHANGED <<cardsById, cardsByKey, calibrationMultiplier, lastCalibratedAt, gen>>

(***************************************************************************)
(* CalibrationService.  Statement totals are counted in units of the       *)
(* assumed average cost per operation (0.001), variancePercent in percent, *)
(* confidence in hundredths.                                               *)
(***************************************************************************)
minSampleSize == 100

varianceThresholdPercent == 5

\* analyzeService, lines 177-183: current * (1 + (real / estimated - 1) * 0.5),
\* to the nearest multiplier the model represents.
dampenedProposal_undamped(currentMultiplier, estimatedTotal, realTotal) ==
    MathRound(currentMultiplier * realTotal, estimatedTotal)

dampenedProposal(currentMultiplier, estimatedTotal, realTotal) ==
    MathRound(currentMultiplier * (estimatedTotal + realTotal), 2 * estimatedTotal)

\* A clamp of the suggestion to half the additive range.
preClamp_halfRange(currentMultiplier, suggestedMultiplier) ==
    Max(currentMultiplier - maxMultiplierChange \div 2,
        Min(currentMultiplier + maxMultiplierChange \div 2, suggestedMultiplier))

\* analyzeService, lines 185-191: the clamp of the suggestion to
\* [current * (1 - maxChange), current * (1 + maxChange)].
preClamp(currentMultiplier, suggestedMultiplier) ==
    Max(MathRound(currentMultiplier * (MultDen - maxMultiplierChange), MultDen),
        Min(MathRound(currentMultiplier * (MultDen + maxMultiplierChange), MultDen),
            suggestedMultiplier))

\* analyzeService without its write to the history: the CalibrationResult, or
\* null when no rate card matches.
analyzeService(provider, serviceSummary) ==
    LET r == find(provider, serviceSummary.service, NoValue)
        estimatedTotal == serviceSummary.estimatedTotal
        realTotal == serviceSummary.realTotal
        variancePercent == serviceSummary.variancePercent
        sampleSize == realTotal
        confidence == Min(100, (100 * sampleSize) \div minSampleSize)
        currentMultiplier == calibrationMultiplier[r]
        needsCalibration == estimatedTotal > 0 /\ Abs(variancePercent) > varianceThresholdPercent
        proposed == dampenedProposal(currentMultiplier, estimatedTotal, realTotal)
        suggestedMultiplier ==
            IF needsCalibration
            THEN preClamp(currentMultiplier, proposed)
            ELSE currentMultiplier
    IN  IF r = NoValue THEN Null
        ELSE [rateCardId |-> RateCard(r).id,
              currentMultiplier |-> currentMultiplier,
              suggestedMultiplier |-> suggestedMultiplier,
              applied |-> FALSE,
              varianceData |-> [estimatedTotal |-> estimatedTotal, realTotal |-> realTotal,
                                variance |-> serviceSummary.variance,
                                variancePercent |-> variancePercent,
                                sampleSize |-> sampleSize],
              confidence |-> confidence]

\* The CalibrationData analyzeService stores for a result.
calibrationDataOf(result) ==
    [rateCardId |-> result.rateCardId,
     estimatedTotal |-> result.varianceData.estimatedTotal,
     realTotal |-> result.varianceData.realTotal,
     variance |-> result.varianceData.variance,
     variancePercent |-> result.varianceData.variancePercent,
     suggestedMultiplier |-> result.suggestedMultiplier,
     confidence |-> result.confidence,
     sampleSize |-> result.varianceData.sampleSize]

\* The loop of analyzeStatement over the (provider, service) pairs of
\* statement.byProvider, in order: the results, the history and the observer log.
RECURSIVE analyzeLoop_recordsOnlyWhenNeeded(_, _, _, _, _)
analyzeLoop_recordsOnlyWhenNeeded(pairs, i, results, hist, log) ==
    IF i > Len(pairs) THEN [results |-> results, history |-> hist, log |-> log]
    ELSE LET result == analyzeService(pairs[i].provider, pairs[i])
             needed == Abs(pairs[i].variancePercent) > varianceThresholdPercent
         IN  IF result = Null
             THEN analyzeLoop_recordsOnlyWhenNeeded(pairs, i + 1, results, hist, log)
             ELSE analyzeLoop_recordsOnlyWhenNeeded(pairs, i + 1, Append(results, result),
                      IF needed THEN addCalibrationData(hist, calibrationDataOf(result)) ELSE hist,
                      IF needed THEN logAppend(log, calibrationDataOf(result)) ELSE log)

RECURSIVE analyzeLoop(_, _, _, _, _)
analyzeLoop(pairs, i, results, hist, log) ==
    IF i > Len(pairs) THEN [results |-> results, history |-> hist, log |-> log]
    ELSE LET result == analyzeService(pairs[i].provider, pairs[i])
         IN  IF result = Null
             THEN analyzeLoop(pairs, i + 1, results, hist, log)
             ELSE analyzeLoop(pairs, i + 1, Append(results, result),
                              addCalibrationData(hist, calibrationDataOf(result)),
                              logAppend(log, calibrationDataOf(result)))

AnalyzeStatement(pairs) ==
    LET out == analyzeLoop(pairs, 1, <<>>, calibrationHistory, appendLog)
    IN  /\ ret' = [op |-> "analyzeStatement", val |-> out.results, statement |-> pairs]
        /\ calibrationHistory' = out.history
        /\ appendLog' = out.log
        /\ UNCHANGED <<cardsById, cardsByKey, calibrationMultiplier, lastCalibratedAt, gen>>

\* applyCalibrations, lines 240-241: the options with their defaults;
\* minConfidence is in hundredths, like confidence.
defaultMinConfidence == 80

optionMinConfidence(options) ==
    IF "minConfidence" \in DOMAIN options THEN options.minConfidence ELSE defaultMinConfidence

optionForce(options) == IF "force" \in DOMAIN options THEN options.force ELSE FALSE

\* applyCalibrations, lines 246-249.
shouldApply_ignoresVariance(result, minConfidence, force) ==
    force \/ result.confidence >= minConfidence

shouldApply(result, minConfidence, force) ==
    force \/ (/\ result.confidence >= minConfidence
              /\ Abs(result.varianceData.variancePercent) > varianceThresholdPercent)

\* applyCalibrations, lines 252-255: the multiplier handed to registry.calibrate.
appliedTarget_current(result) == result.currentMultiplier

appliedTarget_change(result) == result.suggestedMultiplier - result.currentMultiplier

appliedTarget(result) == result.suggestedMultiplier

\* registry.calibrate(id, multiplier) on the multipliers and timestamps in cards.
calibrate(cards, id, multiplier) ==
    LET r == findById(id)
    IN  IF r = NoValue THEN [success |-> FALSE, cards |-> cards]
        ELSE [success |-> TRUE,
              cards |-> [multiplier |-> [cards.multiplier EXCEPT ![r] =
                                            clampMultiplier(cards.multiplier[r], maxMultiplierChange,
                                                            multiplier)],
                         at |-> [cards.at EXCEPT ![r] = "set"]]]

\* The loop of applyCalibrations over results[i..]: the updated results, the
\* cards, and the calibrate calls made, in order.
RECURSIVE applyLoop(_, _, _, _, _, _, _)
applyLoop(results, i, minConfidence, force, cards, updatedResults, calls) ==
    IF i > Len(results)
    THEN [updatedResults |-> updatedResults, cards |-> cards, calls |-> calls]
    ELSE LET result == results[i]
             call == calibrate(cards, result.rateCardId, appliedTarget(result))
         IN  IF shouldApply(result, minConfidence, force)
             THEN applyLoop(results, i + 1, minConfidence, force, call.cards,
                            Append(updatedResults, [result EXCEPT !.applied = call.success]),
                            Append(calls, [index |-> i, id |-> result.rateCardId,
                                           multiplier |-> appliedTarget(result)]))
             ELSE applyLoop(results, i + 1, minConfidence, force, cards,
                            Append(updatedResults, [result EXCEPT !.applied = FALSE]), calls)

ApplyCalibrations(results, options) ==
    LET out == applyLoop(results, 1, optionMinConfidence(options), optionForce(options),
                         [multiplier |-> calibrationMultiplier, at |-> lastCalibratedAt],
                         <<>>, <<>>)
    IN  /\ ret' = [op |-> "applyCalibrations", val |-> out.updatedResults, results |-> results,
                   options |-> options, calls |-> out.calls]
        /\ calibrationMultiplier' = out.cards.multiplier
        /\ lastCalibratedAt' = out.cards.at
        /\ UNCHANGED <<cardsById, cardsByKey, calibrationHistory, appendLog, gen>>

ResetCalibration(rateCardId) ==
    LET call == calibrate([multiplier |-> calibrationMultiplier, at |-> lastCalibratedAt],
                          rateCardId, One)
    IN  /\ ret' = [op |-> "resetCalibration", val |-> call.success]
        /\ calibrationMultiplier' = call.cards.multiplier
        /\ lastCalibratedAt' = call.cards.at
        /\ UNCHANGED <<cardsById, cardsByKey, calibrationHistory, appendLog, gen>>

(***************************************************************************)
(* CostCalculator                                                          *)
(***************************************************************************)
\* round(value) of a value given in 1/PriceDen grid units; the result is in grid units.
round_dropsSign(value) == MathRound(Abs(value), PriceDen)

round_down(value) == value \div PriceDen

round(value) == MathRound(value, PriceDen)

Field(rec, name, default) == IF name \in DOMAIN rec THEN rec[name] ELSE default

\* [...tiers].sort((a, b) => a.min - b.min): a stable sort by min.
RECURSIVE insertTier(_, _)
insertTier(sorted, tier) ==
    IF sorted = <<>> THEN <<tier>>
    ELSE IF tier.min < sorted[Len(sorted)].min
         THEN Append(insertTier(SubSeq(sorted, 1, Len(sorted) - 1), tier), sorted[Len(sorted)])
         ELSE Append(sorted, tier)

RECURSIVE sortTiers(_)
sortTiers(tiers) ==
    IF tiers = <<>> THEN <<>>
    ELSE insertTier(sortTiers(SubSeq(tiers, 1, Len(tiers) - 1)), tiers[Len(tiers)])

\* The loop of calculateTieredCost over sortedTiers[i..]; costs in 1/PriceDen grid units.
RECURSIVE tierLoop(_, _, _, _, _)
tierLoop(sortedTiers, i, remaining, totalCost, breakdown) ==
    IF i > Len(sortedTiers) \/ remaining <= 0
    THEN [totalCost |-> totalCost, breakdown |-> breakdown]
    ELSE LET tier == sortedTiers[i]
             tierQuantity == IF "max" \in DOMAIN tier
                             THEN Min(remaining, tier.max - tier.min)
                             ELSE remaining
             tierCost == tierQuantity * tier.pricePerUnit
         IN  IF tierQuantity > 0
             THEN tierLoop(sortedTiers, i + 1, remaining - tierQuantity, totalCost + tierCost,
                           Append(breakdown, [tierMin |-> tier.min, quantity |-> tierQuantity,
                                              pricePerUnit |-> tier.pricePerUnit,
                                              cost |-> round(tierCost)]))
             ELSE tierLoop(sortedTiers, i + 1, remaining, totalCost, breakdown)

calculateTieredCost(tiers, quantity) == tierLoop(sortTiers(tiers), 1, quantity, 0, <<>>)

\* calculateRuleCost, lines 122-125: the minimum charge.
applyMinimumCharge_always(rule, cost, billableQuantity) ==
    IF "minimumCharge" \in DOMAIN rule /\ cost < rule.minimumCharge
    THEN rule.minimumCharge
    ELSE cost

applyMinimumCharge(rule, cost, billableQuantity) ==
    IF "minimumCharge" \in DOMAIN rule /\ cost < rule.minimumCharge /\ billableQuantity > 0
    THEN rule.minimumCharge
    ELSE cost

calculateRuleCost(rule, quantity) ==
    LET freeAllowance == Field(rule, "freeAllowance", 0)
        billableQuantity == Max(0, quantity - freeAllowance)
        tiered == "tiers" \in DOMAIN rule /\ Len(rule.tiers) > 0
        cost == IF tiered THEN calculateTieredCost(rule.tiers, billableQuantity).totalCost
                ELSE IF "pricePerUnit" \in DOMAIN rule THEN billableQuantity * rule.pricePerUnit
                ELSE 0
    IN  [ruleId |-> rule.id,
         quantity |-> quantity,
         freeAllowanceApplied |-> Min(quantity, freeAllowance),
         billableQuantity |-> billableQuantity,
         cost |-> round(applyMinimumCharge(rule, cost, billableQuantity)),
         tierBreakdown |-> IF tiered
                           THEN calculateTieredCost(rule.tiers, billableQuantity).breakdown
                           ELSE <<>>]

getMetricValue(metrics, rule) ==
    IF rule.unit \in DOMAIN metrics THEN metrics[rule.unit]
    ELSE IF "customUnit" \in DOMAIN rule /\ rule.customUnit \in DOMAIN metrics
         THEN metrics[rule.customUnit]
    ELSE IF rule.id \in DOMAIN metrics THEN metrics[rule.id]
    ELSE 0

\* The loop of calculateCost over rateCard.rules: the breakdown items, in rule order.
RECURSIVE ruleLoop(_, _, _)
ruleLoop(rules, i, metrics) ==
    IF i > Len(rules) THEN <<>>
    ELSE LET quantity == getMetricValue(metrics, rules[i])
         IN  IF quantity <= 0
             THEN ruleLoop(rules, i + 1, metrics)
             ELSE <<calculateRuleCost(rules[i], quantity)>> \o ruleLoop(rules, i + 1, metrics)

RECURSIVE sumCost(_)
sumCost(breakdown) ==
    IF breakdown = <<>> THEN 0
    ELSE breakdown[1].cost + sumCost(Tail(breakdown))

\* calculateCost, lines 81-84: the multiplier the estimate uses.
estimateMultiplier_ignoreConfig(r, applyCalibration) == calibrationMultiplier[r]

estimateMultiplier(r, applyCalibration) ==
    IF applyCalibration THEN calibrationMultiplier[r] ELSE One

\* calculateCost(usage) of a calculator configured with applyCalibration.
calculateCost(usage, applyCalibration) ==
    LET r == find(usage.provider, usage.service, usage.sku)
        breakdown == ruleLoop(RateCard(r).rules, 1, usage.metrics)
        subtotal == sumCost(breakdown)
        multiplier == estimateMultiplier(r, applyCalibration)
    IN  IF r = NoValue THEN Null
        ELSE [rateCardId |-> RateCard(r).id,
              breakdown |-> breakdown,
              subtotal |-> subtotal,
              calibrationMultiplier |-> multiplier,
              total |-> MathRound(subtotal * multiplier, MultDen)]

CalculateCost(usage, applyCalibration) ==
    /\ ret' = [op |-> "calculateCost", val |-> calculateCost(usage, applyCalibration),
               applyCalibration |-> applyCalibration]
    /\ UNCHANGED <<cardsById, cardsByKey, calibrationHistory, calibrationMultiplier,
                   lastCalibratedAt, appendLog, gen>>

(***************************************************************************)
(* CostCalculator.calculateFromOperations.  An operation record has the    *)
(* fields provider, service, tenantId, feature, requestCount and           *)
(* cpuSeconds (cpuUsage?.seconds); an absent string holds NoValue, an      *)
(* absent number 0 (the code treats the two alike).  The totalCost of a    *)
(* line item is counted in units of 1 / MultDen of the rounding grid.      *)
(***************************************************************************)
\* value || fallback, for strings.
orElse(value, fallback) == IF Falsy(value) THEN fallback ELSE value

createGroupKey(op) ==
    op.provider \o ":" \o orElse(op.service, "default") \o ":"
        \o orElse(op.tenantId, "_default") \o ":" \o orElse(op.feature, "_default")

\* aggregateMetrics, for the request count and the CPU seconds.
aggregateMetrics(metrics, op) ==
    LET sofar(name) == IF name \in DOMAIN metrics THEN metrics[name] ELSE 0
        withRequests == MapSet(metrics, "requests",
                               sofar("requests")
                                 + (IF op.requestCount = 0 THEN 1 ELSE op.requestCount))
    IN  IF op.cpuSeconds # 0
        THEN MapSet(withRequests, "cpu_seconds", sofar("cpu_seconds") + op.cpuSeconds)
        ELSE withRequests

\* The loop of aggregateOperations; groups holds [key, usage] in insertion order.
RECURSIVE groupLoop(_, _, _)
groupLoop(operations, i, groups) ==
    IF i > Len(operations) THEN groups
    ELSE LET op == operations[i]
             key == createGroupKey(op)
             has == \E j \in 1..Len(groups) : groups[j].key = key
             created ==
                 IF has THEN groups
                 ELSE Append(groups,
                             [key |-> key,
                              usage |-> [provider |-> toLowerCase(op.provider),
                                         service |-> orElse(op.service, "default"),
                                         sku |-> NoValue,
                                         metrics |-> EmptyMap,
                                         tenantId |-> op.tenantId,
                                         feature |-> op.feature,
                                         operationCount |-> 0]])
             at == CHOOSE j \in 1..Len(created) : created[j].key = key
             group == created[at].usage
         IN  groupLoop(operations, i + 1,
                       [created EXCEPT ![at].usage =
                           [group EXCEPT !.operationCount = @ + 1,
                                         !.metrics = aggregateMetrics(@, op)]])

\* aggregateOperations: the usage groups, in insertion order.
aggregateOperations(operations) ==
    LET groups == groupLoop(operations, 1, <<>>)
    IN  [j \in 1..Len(groups) |-> groups[j].usage]

\* The one billing period with valid bounds that statements are generated for.
Period == "2024-01"

createLineItemId(source, provider, service, period, suffix) ==
    source \o "-" \o provider \o "-" \o service \o "-" \o period \o "-"
        \o (IF Falsy(suffix) THEN "Date.now()" ELSE suffix)

keepsBreakdown_any(breakdown) == TRUE

\* The test of the inner loop: a breakdown entry of cost 0 gives no line item.
keepsBreakdown(breakdown) == breakdown.cost # 0

itemTotalCost_adjustedTwice(breakdown, estimate) ==
    (breakdown.cost * estimate.calibrationMultiplier * estimate.calibrationMultiplier) \div MultDen

\* totalCost of a line item, in units of 1/MultDen of the rounding grid.
itemTotalCost(breakdown, estimate) == breakdown.cost * estimate.calibrationMultiplier

recordedMultiplier_oneWhenUnattributed(usage, estimate) ==
    IF Falsy(usage.feature) THEN One ELSE estimate.calibrationMultiplier

\* metadata.calibrationMultiplier of a line item.
recordedMultiplier(usage, estimate) == estimate.calibrationMultiplier

\* The inner loop of calculateFromOperations over estimate.breakdown.
RECURSIVE breakdownLoop(_, _, _)
breakdownLoop(usage, estimate, i) ==
    IF i > Len(estimate.breakdown) THEN <<>>
    ELSE LET breakdown == estimate.breakdown[i]
         IN  IF ~keepsBreakdown(breakdown)
             THEN breakdownLoop(usage, estimate, i + 1)
             ELSE << [id |-> createLineItemId("estimate", usage.provider, usage.service,
                                              Period, breakdown.ruleId),
                      source |-> "estimate",
                      period |-> Period,
                      provider |-> usage.provider,
                      service |-> usage.service,
                      tenantId |-> usage.tenantId,
                      feature |-> usage.feature,
                      totalCost |-> itemTotalCost(breakdown, estimate),
                      rateCardId |-> estimate.rateCardId,
                      metadata |-> [operationCount |-> usage.operationCount,
                                    calibrationMultiplier |-> recordedMultiplier(usage, estimate)]] >>
                  \o breakdownLoop(usage, estimate, i + 1)

\* The outer loop of calculateFromOperations over the usage groups.
RECURSIVE usageLoop(_, _)
usageLoop(usageGroups, i) ==
    IF i > Len(usageGroups) THEN <<>>
    ELSE LET estimate == calculateCost(usageGroups[i], TRUE)
         IN  IF estimate = Null
             THEN usageLoop(usageGroups, i + 1)
             ELSE IF estimate.total = 0
             THEN usageLoop(usageGroups, i + 1)
             ELSE breakdownLoop(usageGroups[i], estimate, 1) \o usageLoop(usageGroups, i + 1)

\* calculateFromOperations(operations, Period) of the generator's calculator,
\* which is built with the default configuration (applyCalibration: true).
calculateFromOperations(operations) == usageLoop(aggregateOperations(operations), 1)

CalculateFromOperations(operations) ==
    /\ ret' = [op |-> "calculateFromOperations", val |-> calculateFromOperations(operations),
               operations |-> operations]
    /\ UNCHANGED <<registryVars, appendLog, gen>>

(***************************************************************************)
(* GCPBillingProcessor.  A billing record has the fields service           *)
(* (description), cost and labels (a sequence of [key, value]).            *)
(***************************************************************************)
\* The default minCost, 0.0001, with the rounding grid at 10^-6.
minCost == 100 * MultDen

RECURSIVE findLabel(_, _)
findLabel(labels, keys) ==
    IF labels = <<>> THEN NoValue
    ELSE IF Head(labels).key \in keys THEN Head(labels).value
    ELSE findLabel(Tail(labels), keys)

extractTenantId(labels) == findLabel(labels, {"tenant_id", "tenant-id"})

extractFeature(labels) == findLabel(labels, {"feature", "feature-name"})

simplifyGCPRecord(record) ==
    [serviceName |-> record.service.description,
     costUsd |-> record.cost,
     tenantId |-> extractTenantId(record.labels),
     feature |-> extractFeature(record.labels)]

filterRecords(records) == SelectSeq(records, LAMBDA record : ~(record.costUsd < minCost))

normalizeServiceName(serviceName) ==
    CASE serviceName = "Cloud Run" -> "cloud-run"
      [] serviceName = "Firestore" -> "firestore"
      [] serviceName = "Cloud SQL" -> "cloud-sql"    \* not in the mapping: lower case, dashes
      [] OTHER -> toLowerCase(serviceName)

convertToLineItems(records) ==
    [index \in 1..Len(records) |->
        LET serviceName == normalizeServiceName(records[index].serviceName)
        IN  [id |-> createLineItemId("real", "gcp", serviceName, Period, ToString(index - 1)),
             source |-> "real",
             period |-> Period,
             provider |-> "gcp",
             service |-> serviceName,
             tenantId |-> records[index].tenantId,
             feature |-> records[index].feature,
             totalCost |-> records[index].costUsd]]

\* processPeriod(Period, records): the caller always passes the records.
processPeriod(billingRecords) ==
    convertToLineItems(filterRecords(
        [j \in 1..Len(billingRecords) |-> simplifyGCPRecord(billingRecords[j])]))

(***************************************************************************)
(* StatementGenerator.  variancePercent is kept as the exact quotient      *)
(* num / den.                                                              *)
(***************************************************************************)
calculateVariancePercent_overReal(estimated, real) ==
    IF estimated = 0 THEN [num |-> IF real = 0 THEN 0 ELSE 100, den |-> 1]
    ELSE IF real = 0 THEN [num |-> -100, den |-> 1]
    ELSE [num |-> (real - estimated) * 100, den |-> real]

calculateVariancePercent(estimated, real) ==
    IF estimated = 0 THEN [num |-> IF real = 0 THEN 0 ELSE 100, den |-> 1]
    ELSE [num |-> (real - estimated) * 100, den |-> estimated]

\* Totals left at the 0 of the empty statement.
sumCosts_leftAtZero(lineItems) == 0

\* sumCosts: lineItems.reduce((sum, item) => sum + item.totalCost, 0).
RECURSIVE sumCosts(_)
sumCosts(lineItems) ==
    IF lineItems = <<>> THEN 0
    ELSE sumCosts(SubSeq(lineItems, 1, Len(lineItems) - 1)) + lineItems[Len(lineItems)].totalCost

RECURSIVE sumValues(_)
sumValues(values) ==
    IF values = <<>> THEN 0 ELSE Head(values) + sumValues(Tail(values))

\* The keys of a Map, in insertion order, after the given sets were made.
RECURSIVE insertionOrder(_)
insertionOrder(keys) ==
    IF keys = <<>> THEN <<>>
    ELSE LET before == insertionOrder(SubSeq(keys, 1, Len(keys) - 1))
             key == keys[Len(keys)]
         IN  IF \E j \in 1..Len(before) : before[j] = key THEN before ELSE Append(before, key)

aggregateByProvider(statement) ==
    LET keyOf(items) == [j \in 1..Len(items) |-> items[j].provider]
        providers == insertionOrder(keyOf(statement.estimatedLineItems)
                                      \o keyOf(statement.realLineItems))
    IN  [p \in 1..Len(providers) |->
            LET estimated == SelectSeq(statement.estimatedLineItems,
                                       LAMBDA item : item.provider = providers[p])
                real == SelectSeq(statement.realLineItems,
                                  LAMBDA item : item.provider = providers[p])
                serviceOf(items) == [j \in 1..Len(items) |-> items[j].service]
                estimatedServices == insertionOrder(serviceOf(estimated))
                realServices == insertionOrder(serviceOf(real))
                allServices == insertionOrder(estimatedServices \o realServices)
                estCost(service) ==
                    sumCosts(SelectSeq(estimated, LAMBDA item : item.service = service))
                realCost(service) ==
                    sumCosts(SelectSeq(real, LAMBDA item : item.service = service))
                estimatedTotal ==
                    sumValues([j \in 1..Len(estimatedServices) |-> estCost(estimatedServices[j])])
                realTotal ==
                    sumValues([j \in 1..Len(realServices) |-> realCost(realServices[j])])
            IN  [provider |-> providers[p],
                 estimatedTotal |-> estimatedTotal,
                 realTotal |-> realTotal,
                 variance |-> realTotal - estimatedTotal,
                 variancePercent |-> calculateVariancePercent(estimatedTotal, realTotal),
                 byService |->
                    [j \in 1..Len(allServices) |->
                        [service |-> allServices[j],
                         estimatedTotal |-> estCost(allServices[j]),
                         realTotal |-> realCost(allServices[j]),
                         variance |-> realCost(allServices[j]) - estCost(allServices[j]),
                         variancePercent |->
                            calculateVariancePercent(estCost(allServices[j]),
                                                     realCost(allServices[j]))]]]]

aggregateByTenant(statement) ==
    LET keyOf(items) == [j \in 1..Len(items) |-> orElse(items[j].tenantId, "_unattributed")]
        tenants == insertionOrder(keyOf(statement.estimatedLineItems)
                                    \o keyOf(statement.realLineItems))
    IN  [t \in 1..Len(tenants) |->
            LET estimatedItems ==
                    SelectSeq(statement.estimatedLineItems,
                              LAMBDA item : orElse(item.tenantId, "_unattributed") = tenants[t])
                realItems ==
                    SelectSeq(statement.realLineItems,
                              LAMBDA item : orElse(item.tenantId, "_unattributed") = tenants[t])
                providerOf(items) == [j \in 1..Len(items) |-> items[j].provider]
                providers == insertionOrder(providerOf(estimatedItems) \o providerOf(realItems))
            IN  [tenantId |-> tenants[t],
                 estimatedTotal |-> sumCosts(estimatedItems),
                 realTotal |-> sumCosts(realItems),
                 variance |-> sumCosts(realItems) - sumCosts(estimatedItems),
                 variancePercent |->
                    calculateVariancePercent(sumCosts(estimatedItems), sumCosts(realItems)),
                 byProvider |->
                    [j \in 1..Len(providers) |->
                        [provider |-> providers[j],
                         estimated |-> sumCosts(SelectSeq(estimatedItems,
                                           LAMBDA item : item.provider = providers[j])),
                         real |-> sumCosts(SelectSeq(realItems,
                                           LAMBDA item : item.provider = providers[j]))]]]]

aggregateByFeature(statement) ==
    LET keyOf(items) == [j \in 1..Len(items) |-> orElse(items[j].feature, "_unattributed")]
        features == insertionOrder(keyOf(statement.estimatedLineItems)
                                     \o keyOf(statement.realLineItems))
    IN  [f \in 1..Len(features) |->
            LET estimatedItems ==
                    SelectSeq(statement.estimatedLineItems,
                              LAMBDA item : orElse(item.feature, "_unattributed") = features[f])
                realItems ==
                    SelectSeq(statement.realLineItems,
                              LAMBDA item : orElse(item.feature, "_unattributed") = features[f])
            IN  [feature |-> features[f],
                 estimatedTotal |-> sumCosts(estimatedItems),
                 realTotal |-> sumCosts(realItems),
                 variance |-> sumCosts(realItems) - sumCosts(estimatedItems),
                 variancePercent |->
                    calculateVariancePercent(sumCosts(estimatedItems), sumCosts(realItems))]]

generateWarnings(statement) ==
    LET unattributed(items) == Len(SelectSeq(items, LAMBDA item : Falsy(item.tenantId)))
    IN  (IF Abs(statement.variancePercent.num) > 20 * Abs(statement.variancePercent.den)
         THEN <<"High variance detected">> ELSE <<>>)
        \o (IF Len(statement.estimatedLineItems) = 0
            THEN <<"No estimated costs generated">> ELSE <<>>)
        \o (IF Len(statement.realLineItems) = 0
            THEN <<"No real costs imported">> ELSE <<>>)
        \o (IF unattributed(statement.estimatedLineItems) > 0
               \/ unattributed(statement.realLineItems) > 0
            THEN <<"line items have no tenant attribution">> ELSE <<>>)

\* createEmptyStatement(period).
createEmptyStatement(period) ==
    [period |-> period,
     estimatedTotal |-> 0,
     realTotal |-> 0,
     variance |-> 0,
     variancePercent |-> [num |-> 0, den |-> 1],
     byProvider |-> <<>>,
     byTenant |-> <<>>,
     byFeature |-> <<>>,
     lineItems |-> <<>>,
     estimatedLineItems |-> <<>>,
     realLineItems |-> <<>>,
     dataSources |-> <<>>,
     rateCardsUsed |-> {},
     warnings |-> <<>>]

\* { ...DEFAULT_STATEMENT_OPTIONS, ...options }.
withDefaultOptions(options) ==
    [period |-> options.period,
     includeEstimates |-> Field(options, "includeEstimates", TRUE),
     includeReal |-> Field(options, "includeReal", TRUE),
     useMockData |-> Field(options, "useMockData", FALSE)]

\* getPeriodBounds throws (toISOString of an invalid date) for a period that is
\* not a year and a month.
periodBoundsThrow(period) == period # Period

\* generateStatement, steps 3 to 6, and its return.
finishStatement(call) ==
    LET totalled ==
            [call.statement EXCEPT
                !.estimatedTotal = sumCosts(call.statement.estimatedLineItems),
                !.realTotal = sumCosts(call.statement.realLineItems)]
        compared ==
            [totalled EXCEPT
                !.variance = totalled.realTotal - totalled.estimatedTotal,
                !.variancePercent =
                    calculateVariancePercent(totalled.estimatedTotal, totalled.realTotal)]
        aggregated ==
            [compared EXCEPT
                !.byProvider = aggregateByProvider(compared),
                !.byTenant = aggregateByTenant(compared),
                !.byFeature = aggregateByFeature(compared),
                !.dataSources = call.dataSources,
                !.rateCardsUsed = call.rateCardsUsed]
    IN  [pc |-> "returned",
         options |-> call.options,
         config |-> call.config,
         statement |-> [aggregated EXCEPT !.warnings = generateWarnings(aggregated)]]

\* The source the billing records come from.
realSourceType(call) ==
    IF call.options.useMockData \/ call.config.mockBigQuery THEN "mock" ELSE "bigquery"

\* generateStatement, step 2 up to the await of processPeriod: the billing
\* records are generated and turned into line items without suspending.
startReal(call, billingRecords) ==
    IF periodBoundsThrow(call.options.period)
    THEN [pc |-> "failed", options |-> call.options, config |-> call.config]
    ELSE LET lineItems == processPeriod(billingRecords)
         IN  [pc |-> "awaitReal",
              options |-> call.options,
              config |-> call.config,
              pending |-> [lineItems |-> lineItems,
                           dataSource |-> [type |-> realSourceType(call),
                                           recordCount |-> Len(billingRecords)]],
              statement |-> call.statement,
              dataSources |-> call.dataSources,
              rateCardsUsed |-> call.rateCardsUsed]

\* generateStatement with the real branch left out after the estimates.
afterEstimates_returnsAtOnce(call, billingRecords) == finishStatement(call)

\* generateStatement after step 1: step 2 if includeReal, else steps 3 to 6.
afterEstimates(call, billingRecords) ==
    IF call.options.includeReal THEN startReal(call, billingRecords) ELSE finishStatement(call)

\* The source the usage events come from.
estimateSourceType(call) ==
    IF call.options.useMockData \/ call.config.lokiClient = NoValue THEN "mock" ELSE "loki"

\* generateStatement up to its first suspension.
startStatement(config, options, billingRecords) ==
    LET call == [options |-> withDefaultOptions(options),
                 config |-> config,
                 statement |-> createEmptyStatement(options.period),
                 dataSources |-> <<>>,
                 rateCardsUsed |-> {}]
    IN  IF call.options.includeEstimates
        THEN IF periodBoundsThrow(call.options.period)
             THEN [pc |-> "failed", options |-> call.options, config |-> config]
             ELSE [pc |-> "awaitEstimates",
                   options |-> call.options,
                   config |-> config,
                   statement |-> call.statement,
                   dataSources |-> call.dataSources,
                   rateCardsUsed |-> call.rateCardsUsed]
        ELSE afterEstimates(call, billingRecords)

\* The billing records generateRealLineItems works on: those of the mock
\* simulator when one is used, none otherwise.
recordsAvailable(config, options, billingRecords) ==
    IF withDefaultOptions(options).useMockData \/ config.mockBigQuery
    THEN TRUE
    ELSE billingRecords = <<>>

\* A call of generateStatement(options) on a generator built with config, run
\* up to its first suspension, its failure or its return.
GenerateStatement(config, options, billingRecords) ==
    /\ gen.pc \in {"idle", "returned", "failed"}
    /\ recordsAvailable(config, options, billingRecords)
    /\ gen' = startStatement(config, options, billingRecords)
    /\ ret' = [op |-> "generateStatement", val |-> gen'.pc]
    /\ UNCHANGED <<registryVars, appendLog>>

\* queryPeriod resolves with the operations: the rest of step 1, then on as far
\* as the next suspension or the return.
QueryPeriodResolves(operations, billingRecords) ==
    /\ gen.pc = "awaitEstimates"
    /\ recordsAvailable(gen.config, gen.options, billingRecords)
    /\ LET lineItems == calculateFromOperations(operations)
           dataSource == [type |-> estimateSourceType(gen), recordCount |-> Len(operations)]
           call == [options |-> gen.options,
                    config |-> gen.config,
                    statement |->
                        [gen.statement EXCEPT
                            !.estimatedLineItems = lineItems,
                            !.lineItems = @ \o lineItems],
                    dataSources |-> Append(gen.dataSources, dataSource),
                    rateCardsUsed |->
                        gen.rateCardsUsed
                          \cup {id \in {lineItems[j].rateCardId : j \in 1..Len(lineItems)} :
                                   ~Falsy(id)}]
       IN  gen' = afterEstimates(call, billingRecords)
    /\ ret' = [op |-> "queryPeriod", val |-> gen'.pc]
    /\ UNCHANGED <<registryVars, appendLog>>

\* queryPeriod of the Loki client rejects: generateStatement rejects.
QueryPeriodRejects ==
    /\ gen.pc = "awaitEstimates"
    /\ estimateSourceType(gen) = "loki"
    /\ gen' = [pc |-> "failed", options |-> gen.options, config |-> gen.config]
    /\ ret' = [op |-> "queryPeriod", val |-> gen'.pc]
    /\ UNCHANGED <<registryVars, appendLog>>

\* processPeriod has resolved: the rest of step 2, then steps 3 to 6.
ProcessPeriodResolves ==
    /\ gen.pc = "awaitReal"
    /\ gen' = finishStatement(
                 [options |-> gen.options,
                  config |-> gen.config,
                  statement |->
                      [gen.statement EXCEPT
                          !.realLineItems = gen.pending.lineItems,
                          !.lineItems = @ \o gen.pending.lineItems],
                  dataSources |-> Append(gen.dataSources, gen.pending.dataSource),
                  rateCardsUsed |-> gen.rateCardsUsed])
    /\ ret' = [op |-> "processPeriod", val |-> gen'.pc]
    /\ UNCHANGED <<registryVars, appendLog>>

(***************************************************************************)
(* Specification of the registry.                                          *)
(***************************************************************************)
ManualData ==
    {[rateCardId |-> id, estimatedTotal |-> 100, realTotal |-> 40, variance |-> -60,
      variancePercent |-> -60, suggestedMultiplier |-> One, confidence |-> 40,
      sampleSize |-> 40] : id \in {"a", "zz"}}

RECURSIVE totalLength(_)
totalLength(log) ==
    IF DOMAIN log = {} THEN 0
    ELSE LET id == CHOOSE x \in DOMAIN log : TRUE
         IN  Len(log[id]) + totalLength(MapDelete(log, id))

MultiplierTargets == {One - maxMultiplierChange, One + maxMultiplierChange \div 2}

CalibrateTargets == MultiplierTargets \cup {0, 2 * One}

Init ==
    /\ cardsById = EmptyMap
    /\ cardsByKey = EmptyMap
    /\ calibrationHistory = EmptyMap
    /\ calibrationMultiplier = [r \in CardRefs |-> One]
    /\ lastCalibratedAt = [r \in CardRefs |-> NoValue]
    /\ appendLog = EmptyMap
    /\ gen = GenIdle
    /\ ret = [op |-> "new", val |-> NoValue]

Next ==
    \/ \E r \in CardRefs : Register(r)
    \/ \E id \in Ids : Remove(id)
    \/ Clear
    \/ /\ totalLength(appendLog) < 1
       /\ \E data \in ManualData : AddCalibrationData(data)

Spec == Init /\ [][Next]_vars
(***************************************************************************)
(* Properties of the registry.                                             *)
(***************************************************************************)
\* C1: calibrate(id, m) on a registered id returns true and leaves the card's
\* multiplier within maxMultiplierChange of its value before the call; when m is
\* itself within maxMultiplierChange of that value, the stored multiplier is m.
C1_CalibrateClamps ==
    [][\A id \in Ids, m \in CalibrateTargets :
         (Calibrate(id, m) /\ id \in DOMAIN cardsById) =>
            LET r == cardsById[id]
            IN  /\ ret'.val = TRUE
                /\ Abs(calibrationMultiplier'[r] - calibrationMultiplier[r]) <= maxMultiplierChange
                /\ (Abs(m - calibrationMultiplier[r]) <= maxMultiplierChange
                        => calibrationMultiplier'[r] = m)]_vars

\* A calibrate call whose target was out of range has been clamped: the stored
\* value is none of the targets and not the initial 1.0.
C1_Witness ==
    /\ ret.op = "calibrate"
    /\ ret.val = TRUE
    /\ \E id \in DOMAIN cardsById :
          /\ lastCalibratedAt[cardsById[id]] = "set"
          /\ calibrationMultiplier[cardsById[id]] \notin CalibrateTargets \cup {One}

\* C2: remove(id) on a registered id returns true, findById(id) is undefined
\* afterwards, list() is shorter by exactly one, and every find(provider,
\* service, sku) that resolved to a different registered card still resolves to
\* that card.
C2_RemoveLeavesOtherCards ==
    [][\A id \in Ids :
         (Remove(id) /\ id \in DOMAIN cardsById) =>
            /\ ret'.val = TRUE
            /\ findById(id)' = NoValue
            /\ listLength' = listLength - 1
            /\ \A p \in Providers, s \in Services, k \in Skus :
                  (find(p, s, k) \in list /\ find(p, s, k) # cardsById[id])
                      => find(p, s, k)' = find(p, s, k)]_vars

\* The key provider:service:sku of already normalised parts.
C3_Key(p, s, k) == toLowerCase(p) \o ":" \o toLowerCase(s) \o ":" \o k

\* C3: find is case-insensitive and resolves to the card stored under the exact
\* key provider:service:sku when a sku is given and that key is stored, otherwise
\* to the card under provider:service:*, otherwise to undefined; a card just
\* registered without sku as (gcp, cloud-run) is returned by find(GCP, CLOUD-RUN).
C3_FindResolution ==
    /\ \A p \in Providers, s \in Services, k \in Skus :
          /\ find(p, s, k) =
                IF ~Falsy(k) /\ C3_Key(p, s, toLowerCase(k)) \in DOMAIN cardsByKey
                THEN cardsByKey[C3_Key(p, s, toLowerCase(k))]
                ELSE IF C3_Key(p, s, "*") \in DOMAIN cardsByKey
                     THEN cardsByKey[C3_Key(p, s, "*")]
                     ELSE NoValue
          /\ find(p, s, k) = find(toLowerCase(p), toLowerCase(s),
                                  IF Falsy(k) THEN k ELSE toLowerCase(k))
    /\ (ret.op = "register" /\ ret.val = NoValue /\ Falsy(RateCard(ret.card).sku))
          => \A p \in Providers, s \in Services :
                (/\ toLowerCase(p) = toLowerCase(RateCard(ret.card).provider)
                 /\ toLowerCase(s) = toLowerCase(RateCard(ret.card).service))
                    => find(p, s, NoValue) = ret.card

\* An upper-case lookup with a sku hits the exact key while the sku-less lookup
\* resolves to another card, the one just registered without a sku.
C3_Witness ==
    /\ ret.op = "register" /\ ret.val = NoValue /\ ret.card = "r1"
    /\ find("GCP", "CLOUD-RUN", NoValue) = "r1"
    /\ find("GCP", "CLOUD-RUN", "S1") \in {"r2", "r3"}
    /\ find("GCP", "CLOUD-RUN", "zz") = "r1"
    /\ find("aws", "firestore", "s1") = NoValue

\* C4: register(card) throws when id, provider or service is missing or the id
\* is already registered, and then leaves the registry as it was.
C4_RegisterRejects ==
    [][\A r \in CardRefs :
         (/\ Register(r)
          /\ \/ Falsy(RateCard(r).id) \/ Falsy(RateCard(r).provider) \/ Falsy(RateCard(r).service)
             \/ RateCard(r).id \in DOMAIN cardsById)
            => /\ ret'.val # NoValue
               /\ list' = list
               /\ \A id \in Ids : /\ findById(id)' = findById(id)
                                  /\ getCalibrationHistory(id)' = getCalibrationHistory(id)
               /\ \A p \in Providers, s \in Services, k \in Skus : find(p, s, k)' = find(p, s, k)
               /\ UNCHANGED registryVars]_vars

\* A duplicate id was rejected while that id had a recorded history.
C4_Witness ==
    /\ ret.op = "register"
    /\ ret.val = "already exists"
    /\ Len(getCalibrationHistory(RateCard(ret.card).id)) > 0
    /\ find("gcp", "cloud-run", "s1") # NoValue

\* C6: once find(provider, service) without sku resolves to a registered card C,
\* no later register of another card changes that; the result changes only when
\* C is removed or the registry is cleared.
C6_FirstWriterWins ==
    [][\A p \in Providers, s \in Services :
         (find(p, s, NoValue) \in list /\ find(p, s, NoValue)' # find(p, s, NoValue))
            => find(p, s, NoValue) \notin list']_vars

(***************************************************************************)
(* The calculator's pure functions on drawn inputs.                        *)
(***************************************************************************)
TierPool ==
    UNION {{[min |-> m, max |-> m + 1, pricePerUnit |-> p],
            [min |-> m, max |-> m + 2, pricePerUnit |-> p],
            [min |-> m, pricePerUnit |-> p]} : <<m, p>> \in (0..2) \X {1, 3}}

RECURSIVE SeqsUpTo(_, _)
SeqsUpTo(S, n) ==
    IF n = 0 THEN {<<>>}
    ELSE LET shorter == SeqsUpTo(S, n - 1)
         IN  shorter \cup {Append(q, x) : <<q, x>> \in shorter \X S}

TierLists == SeqsUpTo(TierPool, MaxTiers)

BaseRules ==
    {[id |-> "rule", unit |-> "requests"]}
        \cup {[id |-> "rule", unit |-> "requests", pricePerUnit |-> p] : p \in {0, 1, 3}}
        \cup {[id |-> "rule", unit |-> "requests", tiers |-> t] : t \in TierLists}

RulePool ==
    UNION {{b, MapSet(b, "minimumCharge", 5), MapSet(b, "freeAllowance", 2),
            MapSet(MapSet(b, "minimumCharge", 5), "freeAllowance", 2)} : b \in BaseRules}

InitCalc ==
    /\ cardsById = EmptyMap
    /\ cardsByKey = EmptyMap
    /\ calibrationHistory = EmptyMap
    /\ calibrationMultiplier = [r \in CardRefs |-> One]
    /\ lastCalibratedAt = [r \in CardRefs |-> NoValue]
    /\ appendLog = EmptyMap
    /\ gen = GenIdle
    /\ ret \in {[op |-> "new", rule |-> rule, quantity |-> q] :
                    <<rule, q>> \in RulePool \X (0..MaxQuantity)}

CalculateRuleCost ==
    /\ ret.op = "new"
    /\ ret.quantity > 0
    /\ ret' = [op |-> "calculateRuleCost", rule |-> ret.rule, quantity |-> ret.quantity,
               val |-> calculateRuleCost(ret.rule, ret.quantity)]
    /\ UNCHANGED <<cardsById, cardsByKey, calibrationHistory, calibrationMultiplier,
                   lastCalibratedAt, appendLog, gen>>

CalculateTieredCost ==
    /\ ret.op = "new"
    /\ "tiers" \in DOMAIN ret.rule
    /\ ret' = [op |-> "calculateTieredCost", tiers |-> ret.rule.tiers, quantity |-> ret.quantity,
               val |-> calculateTieredCost(ret.rule.tiers, ret.quantity)]
    /\ UNCHANGED <<cardsById, cardsByKey, calibrationHistory, calibrationMultiplier,
                   lastCalibratedAt, appendLog, gen>>

NextCalc == CalculateRuleCost \/ CalculateTieredCost

SpecCalc == InitCalc /\ [][NextCalc]_vars

(***************************************************************************)
(* round on drawn values, positive and negative, on and off the grid.      *)
(***************************************************************************)
InitRound ==
    /\ cardsById = EmptyMap
    /\ cardsByKey = EmptyMap
    /\ calibrationHistory = EmptyMap
    /\ calibrationMultiplier = [r \in CardRefs |-> One]
    /\ lastCalibratedAt = [r \in CardRefs |-> NoValue]
    /\ appendLog = EmptyMap
    /\ gen = GenIdle
    /\ ret \in {[op |-> "new", value |-> v] : v \in (-MaxRoundInput)..MaxRoundInput}

\* round(value), and round applied to its own result (a grid value k is the
\* value k * PriceDen in 1/PriceDen grid units).
Round ==
    /\ ret.op = "new"
    /\ ret' = [op |-> "round", value |-> ret.value, val |-> round(ret.value),
               again |-> round(round(ret.value) * PriceDen)]
    /\ UNCHANGED <<cardsById, cardsByKey, calibrationHistory, calibrationMultiplier,
                   lastCalibratedAt, appendLog, gen>>

NextRound == Round

SpecRound == InitRound /\ [][NextRound]_vars

(***************************************************************************)
(* The calculator on a registry whose multipliers move.                    *)
(***************************************************************************)
Usages ==
    {[provider |-> "GCP", service |-> "cloud-run", sku |-> NoValue, metrics |-> [requests |-> 1]],
     [provider |-> "GCP", service |-> "cloud-run", sku |-> NoValue,
      metrics |-> [cpu_seconds |-> 3, requests |-> 1]],
     [provider |-> "gcp", service |-> "CLOUD-RUN", sku |-> "S1",
      metrics |-> [cpu_seconds |-> 5, egress_gb |-> 4, req |-> 0]],
     [provider |-> "gcp", service |-> "cloud-run", sku |-> "s1",
      metrics |-> [requests |-> 2, egress_gb |-> 2]],
     [provider |-> "gcp", service |-> "firestore", sku |-> "s1", metrics |-> [requests |-> 1]],
     [provider |-> "aws", service |-> "cloud-run", sku |-> NoValue, metrics |-> [requests |-> 1]]}

NextCost ==
    \/ \E r \in {"r1", "r2"} : Register(r)
    \/ \E id \in {"a", "zz"} : Remove(id)
    \/ \E id \in {"a", "b", "zz"}, m \in MultiplierTargets : Calibrate(id, m)
    \/ \E usage \in Usages, applyCalibration \in BOOLEAN : CalculateCost(usage, applyCalibration)

SpecCost == Init /\ [][NextCost]_vars

(***************************************************************************)
(* calibrate on one card, with targets near and far.                       *)
(***************************************************************************)
NextCalibrate ==
    \/ \E r \in {"r1", "r2"} : Register(r)
    \/ \E id \in {"a", "zz"}, m \in CalibrateTargets : Calibrate(id, m)

SpecCalibrate == Init /\ [][NextCalibrate]_vars

(***************************************************************************)
(* The two indexes under register, remove, clear and calibrate.            *)
(***************************************************************************)
NextIndex ==
    \/ \E r \in CardRefs : Register(r)
    \/ \E id \in Ids : Remove(id)
    \/ Clear
    \/ \E id \in {"a", "b", "zz"} : Calibrate(id, One - maxMultiplierChange)

SpecIndex == Init /\ [][NextIndex]_vars

(***************************************************************************)
(* The calibration history.                                                *)
(***************************************************************************)
ServiceSummaries ==
    {[provider |-> "gcp", service |-> "cloud-run", estimatedTotal |-> 100, realTotal |-> 100,
      variance |-> 0, variancePercent |-> 0],
     [provider |-> "GCP", service |-> "CLOUD-RUN", estimatedTotal |-> 100, realTotal |-> 120,
      variance |-> 20, variancePercent |-> 20],
     [provider |-> "aws", service |-> "firestore", estimatedTotal |-> 0, realTotal |-> 50,
      variance |-> 50, variancePercent |-> 100]}

NextHistory ==
    \/ Register("r1")
    \/ /\ totalLength(appendLog) < MaxAppends
       /\ \E data \in ManualData : AddCalibrationData(data)
    \/ /\ totalLength(appendLog) < MaxAppends
       /\ \E pairs \in SeqsUpTo(ServiceSummaries, 2) : AnalyzeStatement(pairs)

SpecHistory == Init /\ [][NextHistory]_vars

(***************************************************************************)
(* Analysing statements and applying the results.                          *)
(***************************************************************************)
\* Service summaries whose variancePercent follows calculateVariancePercent.
ApplySummaries ==
    {[provider |-> "gcp", service |-> "cloud-run", estimatedTotal |-> 100, realTotal |-> 103,
      variance |-> 3, variancePercent |-> 3],
     [provider |-> "GCP", service |-> "CLOUD-RUN", estimatedTotal |-> 100, realTotal |-> 120,
      variance |-> 20, variancePercent |-> 20],
     [provider |-> "gcp", service |-> "cloud-run", estimatedTotal |-> 100, realTotal |-> 40,
      variance |-> -60, variancePercent |-> -60],
     [provider |-> "gcp", service |-> "cloud-run", estimatedTotal |-> 0, realTotal |-> 50,
      variance |-> 50, variancePercent |-> 100],
     [provider |-> "aws", service |-> "firestore", estimatedTotal |-> 100, realTotal |-> 200,
      variance |-> 100, variancePercent |-> 100]}

ApplyOptions ==
    {EmptyMap, [minConfidence |-> 0, force |-> TRUE], [minConfidence |-> 0],
     [minConfidence |-> 100], [force |-> FALSE]}

NextApply ==
    \/ Register("r1")
    \/ Remove("a")
    \/ /\ totalLength(appendLog) < MaxAnalysed
       /\ \E pairs \in SeqsUpTo(ApplySummaries, 2) : AnalyzeStatement(pairs)
    \/ /\ ret.op \in {"analyzeStatement", "applyCalibrations"}
       /\ \E options \in ApplyOptions : ApplyCalibrations(ret.val, options)
    \/ \E id \in {"a", "zz"} : ResetCalibration(id)

SpecApply == Init /\ [][NextApply]_vars

(***************************************************************************)
(* Analyse and apply on a card whose multiplier calibrate has moved well   *)
(* below and well above 1.0.                                               *)
(***************************************************************************)
ClampSummaries ==
    {[provider |-> "gcp", service |-> "cloud-run", estimatedTotal |-> 100, realTotal |-> 0,
      variance |-> -100, variancePercent |-> -100],
     [provider |-> "gcp", service |-> "cloud-run", estimatedTotal |-> 100, realTotal |-> 110,
      variance |-> 10, variancePercent |-> 10],
     [provider |-> "gcp", service |-> "cloud-run", estimatedTotal |-> 100, realTotal |-> 300,
      variance |-> 200, variancePercent |-> 200]}

NextClamp ==
    \/ Register("r1")
    \/ /\ calibrationMultiplier["r1"] > One - 3 * maxMultiplierChange
       /\ Calibrate("a", 0)
    \/ /\ calibrationMultiplier["r1"] < One + 3 * maxMultiplierChange
       /\ Calibrate("a", 3 * One)
    \/ /\ totalLength(appendLog) < MaxAnalysed
       /\ \E summary \in ClampSummaries : AnalyzeStatement(<<summary>>)
    \/ /\ ret.op = "analyzeStatement"
       /\ ApplyCalibrations(ret.val, [minConfidence |-> 0, force |-> TRUE])

SpecClamp == Init /\ [][NextClamp]_vars

(***************************************************************************)
(* Specification of estimation: calculateFromOperations on operation lists *)
(* while cards are registered and calibrated down to a multiplier of 0.    *)
(***************************************************************************)
EstimateOperation(provider, tenantId, feature, requestCount, cpuSeconds) ==
    [provider |-> provider, service |-> "cloud-run", tenantId |-> tenantId, feature |-> feature,
     requestCount |-> requestCount, cpuSeconds |-> cpuSeconds]

EstimateOperationLists ==
    {<<EstimateOperation("gcp", "t1", "f1", 0, 3)>>,
     <<EstimateOperation("gcp", "t1", "f1", 2, 1), EstimateOperation("gcp", "t1", "f1", 0, 4)>>,
     <<EstimateOperation("gcp", "t1", "f1", 0, 2), EstimateOperation("gcp", "t2", "f1", 0, 3),
       EstimateOperation("GCP", "t1", NoValue, 3, 4)>>,
     <<EstimateOperation("aws", "t1", "f1", 1, 3)>>}

NextEstimate ==
    \/ \E r \in {"r1", "r2"} : Register(r)
    \/ \E id \in {"a", "b"} : Calibrate(id, 0)
    \/ \E operations \in EstimateOperationLists : CalculateFromOperations(operations)

SpecEstimate == Init /\ [][NextEstimate]_vars

(***************************************************************************)
(* Specification of statement generation: calls of generateStatement, one  *)
(* in flight at a time, on generators built over the registry, while cards *)
(* are registered and calibrated.                                          *)
(***************************************************************************)
Operation(provider, service, tenantId, feature, requestCount, cpuSeconds) ==
    [provider |-> provider, service |-> service, tenantId |-> tenantId, feature |-> feature,
     requestCount |-> requestCount, cpuSeconds |-> cpuSeconds]

OperationLists ==
    {<<>>,
     <<Operation("gcp", "cloud-run", "t1", "f1", 0, 3),
       Operation("GCP", "cloud-run", "t1", NoValue, 70, 5),
       Operation("gcp", "cloud-run", "t1", "f1", 0, 2)>>,
     <<Operation("gcp", "cloud-run", NoValue, "f1", 70, 0),
       Operation("aws", "firestore", "t2", "f1", 1, 1)>>}

BillingRecord(description, cost, labels) ==
    [service |-> [description |-> description], cost |-> cost, labels |-> labels]

BillingRecordLists ==
    {<<>>,
     <<BillingRecord("Cloud Run", 105 * MultDen,
                     <<[key |-> "tenant_id", value |-> "t1"], [key |-> "feature", value |-> "f1"]>>),
       BillingRecord("Cloud Run", 99 * MultDen, <<[key |-> "tenant-id", value |-> "t1"]>>),
       BillingRecord("Cloud SQL", 300 * MultDen, <<[key |-> "feature-name", value |-> "f2"]>>)>>,
     <<BillingRecord("Firestore", 100 * MultDen, <<>>)>>}

GeneratorConfigs ==
    {[lokiClient |-> "loki", mockBigQuery |-> TRUE],
     [lokiClient |-> NoValue, mockBigQuery |-> FALSE]}

StatementOptions ==
    {[period |-> Period],
     [period |-> Period, useMockData |-> TRUE],
     [period |-> Period, includeReal |-> FALSE],
     [period |-> Period, includeEstimates |-> FALSE],
     [period |-> Period, includeEstimates |-> FALSE, includeReal |-> FALSE],
     [period |-> "2024", includeReal |-> FALSE],
     [period |-> "2024", includeEstimates |-> FALSE],
     [period |-> "2024", includeEstimates |-> FALSE, includeReal |-> FALSE]}

NextStatement ==
    \/ \E r \in {"r1", "r2"} : Register(r)
    \/ \E id \in {"a", "b"} : Calibrate(id, One - maxMultiplierChange)
    \/ \E config \in GeneratorConfigs, options \in StatementOptions,
          billingRecords \in BillingRecordLists :
          GenerateStatement(config, options, billingRecords)
    \/ \E operations \in OperationLists, billingRecords \in BillingRecordLists :
          QueryPeriodResolves(operations, billingRecords)
    \/ QueryPeriodRejects
    \/ ProcessPeriodResolves

SpecStatement == Init /\ [][NextStatement]_vars
(***************************************************************************)
(* Properties of the calculator's pure functions.                          *)
(***************************************************************************)
\* The tiers are non-overlapping and contiguous: sorted by min, each tier ends
\* where the next begins, and only the last may be unbounded.
Contiguous(tiers) ==
    LET sorted == sortTiers(tiers)
    IN  /\ Len(tiers) > 0
        /\ \A i \in 1..Len(sorted) :
              /\ sorted[i].min >= 0
              /\ "max" \in DOMAIN sorted[i] => sorted[i].max > sorted[i].min
              /\ i < Len(sorted) => ("max" \in DOMAIN sorted[i] /\ sorted[i].max = sorted[i + 1].min)

\* The size of [tier.min, tier.max) intersected with [0, q), times the tier's price.
RECURSIVE GraduatedPrice(_, _)
GraduatedPrice(tiers, q) ==
    IF tiers = <<>> THEN 0
    ELSE LET tier == tiers[1]
             upper == IF "max" \in DOMAIN tier THEN Min(q, tier.max) ELSE q
         IN  Max(0, upper - tier.min) * tier.pricePerUnit + GraduatedPrice(Tail(tiers), q)

\* C8: for non-overlapping contiguous tiers the tiered cost of q billable units
\* is the graduated price, the sum over the tiers of the size of [min, max)
\* intersected with [0, q) times the tier's price, whatever the order of the tiers.
C8_GraduatedTiers ==
    (ret.op = "calculateTieredCost" /\ Contiguous(ret.tiers))
        => ret.val.totalCost = GraduatedPrice(ret.tiers, ret.quantity)

\* C9: a usage quantity q with 0 < q <= freeAllowance gives billableQuantity 0
\* and cost 0, for flat and tiered rules, with or without a minimum charge.
C9_FreeAllowance ==
    (/\ ret.op = "calculateRuleCost"
     /\ 0 < ret.quantity
     /\ ret.quantity <= Field(ret.rule, "freeAllowance", 0))
        => ret.val.billableQuantity = 0 /\ ret.val.cost = 0

\* A tiered rule with a minimum charge was priced for a quantity equal to its
\* free allowance.
C9_Witness ==
    /\ ret.op = "calculateRuleCost"
    /\ "tiers" \in DOMAIN ret.rule
    /\ "minimumCharge" \in DOMAIN ret.rule
    /\ "freeAllowance" \in DOMAIN ret.rule
    /\ ret.quantity = ret.rule.freeAllowance
    /\ ret.val.cost = 0

\* C11: round is idempotent, round(round(x)) = round(x), and never changes
\* sign: round(x) is not positive for negative x and not negative for positive x.
C11_RoundIdempotentKeepsSign ==
    ret.op = "round" =>
        /\ ret.again = ret.val
        /\ ret.value < 0 => ret.val <= 0
        /\ ret.value > 0 => ret.val >= 0

\* A negative value off the grid was rounded, to a negative grid value.
C11_Witness ==
    /\ ret.op = "round"
    /\ ret.value < 0
    /\ ret.value % PriceDen # 0
    /\ ret.val < 0

(***************************************************************************)
(* Properties of the calculator on the registry.                           *)
(***************************************************************************)
\* C5: calibrate and remove of an unregistered id return false, calculateCost
\* without a matching card returns null, and none of them changes a card, a key
\* mapping, a multiplier or a calibration history.
C5_UnknownTargets ==
    [][/\ \A id \in Ids, m \in MultiplierTargets :
            (Calibrate(id, m) /\ id \notin DOMAIN cardsById)
                => ret'.val = FALSE /\ UNCHANGED registryVars
       /\ \A id \in Ids :
            (Remove(id) /\ id \notin DOMAIN cardsById)
                => ret'.val = FALSE /\ UNCHANGED registryVars
       /\ \A usage \in Usages, applyCalibration \in BOOLEAN :
            (/\ CalculateCost(usage, applyCalibration)
             /\ find(usage.provider, usage.service, usage.sku) = NoValue)
                => ret'.val = Null /\ UNCHANGED registryVars]_vars

\* calculateCost found no card in a registry that holds a calibrated card.
C5_Witness ==
    /\ ret.op = "calculateCost"
    /\ ret.val = Null
    /\ \E id \in DOMAIN cardsById : calibrationMultiplier[cardsById[id]] # One

\* C10 as claimed: the returned total is exactly the returned subtotal times the
\* calibrationMultiplier, the card's multiplier when applyCalibration is enabled
\* and 1.0 when it is disabled.
C10_TotalIsExactProduct ==
    [][\A usage \in Usages, applyCalibration \in BOOLEAN :
         (/\ CalculateCost(usage, applyCalibration)
          /\ find(usage.provider, usage.service, usage.sku) # NoValue)
            => LET r == find(usage.provider, usage.service, usage.sku)
                   estimate == ret'.val
               IN  /\ estimate.calibrationMultiplier =
                        IF applyCalibration THEN calibrationMultiplier[r] ELSE One
                   /\ estimate.total * MultDen = estimate.subtotal * estimate.calibrationMultiplier]_vars

\* C10 amended: the returned total is the returned subtotal times the
\* calibrationMultiplier rounded to the configured precision (it differs from
\* the product by at most half a unit of the last decimal place), the multiplier
\* being the card's when applyCalibration is enabled and 1.0 when it is disabled.
C10_TotalIsRoundedProduct ==
    [][\A usage \in Usages, applyCalibration \in BOOLEAN :
         (/\ CalculateCost(usage, applyCalibration)
          /\ find(usage.provider, usage.service, usage.sku) # NoValue)
            => LET r == find(usage.provider, usage.service, usage.sku)
                   estimate == ret'.val
               IN  /\ estimate.calibrationMultiplier =
                        IF applyCalibration THEN calibrationMultiplier[r] ELSE One
                   /\ 2 * Abs(estimate.total * MultDen
                              - estimate.subtotal * estimate.calibrationMultiplier) <= MultDen]_vars

\* An estimate whose total is not the exact product, and one made with
\* calibration disabled on a calibrated card.
C10_Witness ==
    /\ ret.op = "calculateCost"
    /\ ret.val # Null
    /\ ret.val.total * MultDen # ret.val.subtotal * ret.val.calibrationMultiplier
    /\ ret.val.subtotal > 0

(***************************************************************************)
(* Properties of the calibration history.                                  *)
(***************************************************************************)
LastEntries(log, n) == IF Len(log) > n THEN SubSeq(log, Len(log) - n + 1, Len(log)) ELSE log

\* C7: the history of every rate card id holds at most 2 x lookbackPeriods
\* entries, and they are the most recently appended ones in the order appended.
C7_HistoryWindow ==
    \A id \in DOMAIN calibrationHistory \cup DOMAIN appendLog :
        /\ Len(getCalibrationHistory(id)) <= 2 * lookbackPeriods
        /\ getCalibrationHistory(id)
              = LastEntries(IF id \in DOMAIN appendLog THEN appendLog[id] ELSE <<>>,
                            2 * lookbackPeriods)

\* More entries were appended for an id than the window holds, the last of them
\* by analyzeStatement, and the oldest one is gone.
C7_Witness ==
    /\ ret.op = "analyzeStatement"
    /\ \E id \in DOMAIN appendLog :
          /\ Len(appendLog[id]) > 2 * lookbackPeriods
          /\ appendLog[id][1] # appendLog[id][Len(appendLog[id])]
          /\ appendLog[id][1] # getCalibrationHistory(id)[1]

(***************************************************************************)
(* Properties of analysing and applying.                                   *)
(***************************************************************************)
\* The card a service summary resolves to, as analyzeService looks it up.
CardOf(summary) == find(summary.provider, summary.service, NoValue)

\* The number of positions of seq whose element satisfies Test.
CountIn(seq, Test(_)) == Cardinality({i \in 1..Len(seq) : Test(seq[i])})

\* C15: analyzeStatement appends exactly one entry to the history of the card of
\* every (provider, service) pair that resolves to a card, whatever the variance,
\* returns one result with applied = false per such pair, in order, skips the
\* other pairs, and leaves every calibrationMultiplier as it was.
C15_AnalyzeOnlyRecords ==
    [][\A pairs \in SeqsUpTo(ApplySummaries, 2) :
         (ret'.op = "analyzeStatement" /\ ret'.statement = pairs /\ AnalyzeStatement(pairs)) =>
            LET matched == SelectSeq(pairs, LAMBDA x : CardOf(x) # NoValue)
                old(id) == IF id \in DOMAIN appendLog THEN appendLog[id] ELSE <<>>
                new(id) == IF id \in DOMAIN appendLog' THEN appendLog'[id] ELSE <<>>
            IN  /\ Len(ret'.val) = Len(matched)
                /\ \A i \in 1..Len(matched) :
                      /\ ret'.val[i].applied = FALSE
                      /\ ret'.val[i].rateCardId = RateCard(CardOf(matched[i])).id
                      /\ ret'.val[i].varianceData.realTotal = matched[i].realTotal
                /\ \A id \in Ids :
                      /\ Len(new(id)) = Len(old(id))
                            + CountIn(matched, LAMBDA x : RateCard(CardOf(x)).id = id)
                      /\ SubSeq(new(id), 1, Len(old(id))) = old(id)
                /\ UNCHANGED <<calibrationMultiplier, lastCalibratedAt, cardsById, cardsByKey>>]_vars

\* A statement with a pair below the threshold and a pair without a card was
\* analysed: one result, its suggestion the current multiplier, one entry recorded.
C15_Witness ==
    /\ ret.op = "analyzeStatement"
    /\ Len(ret.statement) = 2
    /\ Len(ret.val) = 1
    /\ Abs(ret.val[1].varianceData.variancePercent) <= varianceThresholdPercent
    /\ ret.val[1].suggestedMultiplier = ret.val[1].currentMultiplier
    /\ Len(getCalibrationHistory(ret.val[1].rateCardId)) > 0

\* C16: applyCalibrations calls registry.calibrate for a result exactly when
\* force is true or (confidence >= minConfidence and |variancePercent| >
\* varianceThreshold x 100); every other result comes back with applied = false
\* and changes no multiplier; the output has the input's entries in the same order.
C16_AppliesExactlyWhenWarranted ==
    [][\A options \in ApplyOptions :
         (ret.op \in {"analyzeStatement", "applyCalibrations"} /\ ApplyCalibrations(ret.val, options)) =>
            LET results == ret.val
                force == "force" \in DOMAIN options /\ options.force
                minConfidence == IF "minConfidence" \in DOMAIN options
                                 THEN options.minConfidence ELSE 80
                warranted(i) ==
                    force \/ (/\ results[i].confidence >= minConfidence
                              /\ Abs(results[i].varianceData.variancePercent) > 5)
                called(i) == \E c \in 1..Len(ret'.calls) :
                                /\ ret'.calls[c].index = i
                                /\ ret'.calls[c].id = results[i].rateCardId
                                /\ ret'.calls[c].multiplier = results[i].suggestedMultiplier
            IN  /\ Len(ret'.val) = Len(results)
                /\ \A i \in 1..Len(results) :
                      /\ called(i) <=> warranted(i)
                      /\ ~warranted(i) => ret'.val[i].applied = FALSE
                      /\ ret'.val[i] = [results[i] EXCEPT !.applied = ret'.val[i].applied]
                /\ \A r \in CardRefs :
                      calibrationMultiplier'[r] # calibrationMultiplier[r]
                          => \E i \in 1..Len(results) :
                                warranted(i) /\ results[i].rateCardId = RateCard(r).id]_vars

\* With the default options one result of a pair was applied and the other,
\* below the variance threshold, was not.
C16_Witness ==
    /\ ret.op = "applyCalibrations"
    /\ ret.options = EmptyMap
    /\ Len(ret.val) = 2
    /\ ret.val[1].applied # ret.val[2].applied
    /\ Len(ret.calls) = 1

\* C17: after resetCalibration(id) returns true the card's calibrationMultiplier
\* is 1.0, whatever value it had before the call.
C17_ResetRestoresOne ==
    [][\A id \in Ids :
         (ResetCalibration(id) /\ ret'.val = TRUE)
            => calibrationMultiplier'[cardsById[id]] = One]_vars

\* The sum of a total over the service summaries of one provider of a statement.
RECURSIVE C18_ProviderTotal(_, _, _)
C18_ProviderTotal(statement, provider, total) ==
    IF statement = <<>> THEN 0
    ELSE (IF Head(statement).provider = provider THEN Head(statement)[total] ELSE 0)
         + C18_ProviderTotal(Tail(statement), provider, total)

\* |variancePercent| > 5 for the provider summary made of these service summaries.
C18_ProviderOverThreshold(statement, provider) ==
    LET estimated == C18_ProviderTotal(statement, provider, "estimatedTotal")
        real == C18_ProviderTotal(statement, provider, "realTotal")
    IN  IF estimated = 0 THEN real # 0
        ELSE Abs(real - estimated) * 100 > 5 * estimated

C19_RegisterStartsEmptyHistory ==
    [][\A r \in CardRefs :
         (Register(r) /\ ret'.val = NoValue)
            => getCalibrationHistory(RateCard(r).id)' = <<>>]_vars

\* C19 amended: immediately after any successful register(card),
\* getCalibrationHistory(card.id) is what it was immediately before the call; it
\* is empty exactly when no entry was recorded for card.id since construction or
\* the last clear.
C19_RegisterKeepsHistory ==
    [][\A r \in CardRefs :
         (Register(r) /\ ret'.val = NoValue) =>
            /\ getCalibrationHistory(RateCard(r).id)' = getCalibrationHistory(RateCard(r).id)
            /\ getCalibrationHistory(RateCard(r).id)' = <<>>
                  <=> RateCard(r).id \notin DOMAIN appendLog']_vars

\* A card was registered under an id that already has recorded entries.
C19_Witness ==
    /\ ret.op = "register"
    /\ ret.val = NoValue
    /\ getCalibrationHistory(RateCard(ret.card).id) # <<>>

\* Twice the distance, in units of 1 / (2 x estimatedTotal x MultDen) of a
\* multiplier step, between a suggestion and the clamped dampened proposal
\* max(current x (1 - maxChange), min(current x (1 + maxChange),
\* current x (1 + (real / estimated - 1) x 0.5))).
C20_Distance(result) ==
    LET current == result.currentMultiplier
        estimated == result.varianceData.estimatedTotal
        real == result.varianceData.realTotal
        proposed == current * (estimated + real) * MultDen
        lower == current * (MultDen - maxMultiplierChange) * 2 * estimated
        upper == current * (MultDen + maxMultiplierChange) * 2 * estimated
    IN  2 * Abs(result.suggestedMultiplier * 2 * estimated * MultDen
                - Max(lower, Min(upper, proposed)))

RECURSIVE C12_Sum(_)
C12_Sum(lineItems) ==
    IF lineItems = <<>> THEN 0 ELSE Head(lineItems).totalCost + C12_Sum(Tail(lineItems))

\* C12: every statement returned by generateStatement has estimatedTotal = the
\* sum of totalCost over estimatedLineItems, realTotal = the sum of totalCost
\* over realLineItems and variance = realTotal - estimatedTotal, for every
\* combination of includeEstimates and includeReal.
C12_TotalsAreSums ==
    gen.pc = "returned" =>
        /\ gen.statement.estimatedTotal = C12_Sum(gen.statement.estimatedLineItems)
        /\ gen.statement.realTotal = C12_Sum(gen.statement.realLineItems)
        /\ gen.statement.variance = gen.statement.realTotal - gen.statement.estimatedTotal

\* A statement with both branches enabled came back with several items on each
\* side, a positive estimate and a larger real total.
C12_Witness ==
    /\ gen.pc = "returned"
    /\ gen.options.includeEstimates /\ gen.options.includeReal
    /\ Len(gen.statement.estimatedLineItems) > 1
    /\ Len(gen.statement.realLineItems) > 1
    /\ gen.statement.estimatedTotal > 0
    /\ gen.statement.variance > 0

\* The quotient percent is what the rule gives for estimated and real.
C13_Rule(estimated, real, percent) ==
    /\ percent.den # 0
    /\ IF estimated = 0
       THEN percent.num = (IF real = 0 THEN 0 ELSE 100) * percent.den
       ELSE percent.num * estimated = (real - estimated) * 100 * percent.den

C13_RuleOf(summary) ==
    C13_Rule(summary.estimatedTotal, summary.realTotal, summary.variancePercent)

\* C13: variancePercent(estimated, real) is 0 when both are 0, 100 when estimated
\* is 0 and real is not, and (real - estimated) / estimated x 100 otherwise; the
\* total of a generated statement and every provider, service, tenant and
\* feature summary of it carry the variancePercent this rule gives for their own
\* estimatedTotal and realTotal.
C13_VariancePercentRule ==
    /\ \A estimated, real \in -MaxQuantity..MaxQuantity :
          C13_Rule(estimated, real, calculateVariancePercent(estimated, real))
    /\ gen.pc = "returned" =>
          /\ C13_RuleOf(gen.statement)
          /\ \A p \in 1..Len(gen.statement.byProvider) :
                /\ C13_RuleOf(gen.statement.byProvider[p])
                /\ \A j \in 1..Len(gen.statement.byProvider[p].byService) :
                      C13_RuleOf(gen.statement.byProvider[p].byService[j])
          /\ \A t \in 1..Len(gen.statement.byTenant) : C13_RuleOf(gen.statement.byTenant[t])
          /\ \A f \in 1..Len(gen.statement.byFeature) : C13_RuleOf(gen.statement.byFeature[f])

\* A statement came back with a service estimated at 0 that has real cost, a
\* service with both, and a feature with an estimate and no real cost.
C13_Witness ==
    /\ gen.pc = "returned"
    /\ \E p \in 1..Len(gen.statement.byProvider) :
          LET byService == gen.statement.byProvider[p].byService
          IN  /\ \E j \in 1..Len(byService) :
                    byService[j].estimatedTotal = 0 /\ byService[j].realTotal > 0
              /\ \E j \in 1..Len(byService) :
                    byService[j].estimatedTotal > 0 /\ byService[j].realTotal > 0
    /\ \E f \in 1..Len(gen.statement.byFeature) :
          /\ gen.statement.byFeature[f].estimatedTotal > 0
          /\ gen.statement.byFeature[f].realTotal = 0

\* C14: generateStatement returns a statement only after every enabled branch
\* has completed, the estimates before the real costs; when the fetch of an
\* enabled branch fails the call fails and no statement is returned; a returned
\* statement has exactly one DataSourceInfo per enabled branch and an empty
\* line-item list for a disabled branch.
C14_ReturnsAfterEnabledBranches ==
    [][/\ (gen'.pc = "returned" /\ gen' # gen) =>
             LET options == gen'.options
                 statement == gen'.statement
             IN  /\ IF options.includeReal
                    THEN gen.pc = "awaitReal" /\ gen.options = options
                    ELSE IF options.includeEstimates
                    THEN gen.pc = "awaitEstimates" /\ gen.options = options
                    ELSE gen.pc \in {"idle", "returned", "failed"}
                 /\ Len(statement.dataSources)
                       = (IF options.includeEstimates THEN 1 ELSE 0)
                           + (IF options.includeReal THEN 1 ELSE 0)
                 /\ options.includeEstimates
                       => statement.dataSources[1].type \in {"loki", "mock"}
                 /\ options.includeReal
                       => statement.dataSources[Len(statement.dataSources)].type
                             \in {"bigquery", "mock"}
                 /\ ~options.includeEstimates => statement.estimatedLineItems = <<>>
                 /\ ~options.includeReal => statement.realLineItems = <<>>
       /\ (gen'.pc = "awaitReal" /\ gen' # gen) =>
             IF gen'.options.includeEstimates
             THEN gen.pc = "awaitEstimates" /\ gen.options = gen'.options
             ELSE gen.pc \in {"idle", "returned", "failed"}
       /\ QueryPeriodRejects => gen'.pc = "failed" /\ "statement" \notin DOMAIN gen'
       /\ (gen.pc = "failed" /\ gen' # gen) => ret'.op = "generateStatement"]_vars

\* A statement of both branches came back with its two data sources, the usage
\* events from Loki and the billing records from the mock simulator.
C14_Witness ==
    /\ gen.pc = "returned"
    /\ ret.op = "processPeriod"
    /\ gen.options.includeEstimates /\ gen.options.includeReal
    /\ Len(gen.statement.dataSources) = 2
    /\ gen.statement.dataSources[1].type = "loki"
    /\ gen.statement.dataSources[2].type = "mock"
    /\ gen.statement.estimatedLineItems # <<>>

(***************************************************************************)
(* Properties of the key index.                                            *)
(***************************************************************************)
\* C29: in every state reachable by register, remove, clear and calibrate calls
\* every card that find(provider, service, sku) returns is registered: findById
\* of its id returns that same card.
C29_NoDanglingKeys ==
    \A provider \in Providers, service \in Services, sku \in Skus :
        LET r == find(provider, service, sku)
        IN  r # NoValue => findById(RateCard(r).id) = r

\* A card with a sku was removed after another card had taken its exact key, a
\* third card holds the fallback slot, and the remaining lookups still resolve.
C29_Witness ==
    /\ ret.op = "remove"
    /\ ret.val = TRUE
    /\ findById("b") = NoValue
    /\ findById("c") = "r3"
    /\ find("gcp", "cloud-run", "s1") = "r1"
    /\ calibrationMultiplier["r1"] # One

(***************************************************************************)
(* Properties of the two clamps on the analyse-then-apply path.            *)
(***************************************************************************)
\* What calibrate stores for the one result of an analysis when it is handed
\* the dampened proposal itself: the additive clamp alone.
C21_AdditiveAlone(result) ==
    LET current == result.currentMultiplier
        proposed == dampenedProposal(current, result.varianceData.estimatedTotal,
                                     result.varianceData.realTotal)
    IN  Max(current - maxMultiplierChange, Min(current + maxMultiplierChange, proposed))

\* The one result of the analysis just made proposes a change for a registered card.
C21_Proposes(result) ==
    /\ findById(result.rateCardId) # NoValue
    /\ result.varianceData.estimatedTotal > 0
    /\ Abs(result.varianceData.variancePercent) > 5

\* C21 as claimed: on the analyse-then-apply path, when the current multiplier
\* is below 1 the multiplicative pre-clamp of analyzeService has no effect on the
\* multiplier calibrate finally stores: the stored value is what the additive
\* clamp alone would give.
C21_PreClampIdleBelowOne ==
    [][(/\ ret.op = "analyzeStatement"
        /\ Len(ret.val) = 1
        /\ ApplyCalibrations(ret.val, [minConfidence |-> 0, force |-> TRUE])
        /\ C21_Proposes(ret.val[1])
        /\ ret.val[1].currentMultiplier < One)
          => calibrationMultiplier'[findById(ret.val[1].rateCardId)]
                = C21_AdditiveAlone(ret.val[1])]_vars

\* C21 amended: on the analyse-then-apply path, when the current multiplier is
\* 1 or above the multiplicative pre-clamp has no effect on the multiplier
\* calibrate finally stores; it is below 1 that the pre-clamp can change it.
C21_PreClampIdleFromOne ==
    [][(/\ ret.op = "analyzeStatement"
        /\ Len(ret.val) = 1
        /\ ApplyCalibrations(ret.val, [minConfidence |-> 0, force |-> TRUE])
        /\ C21_Proposes(ret.val[1])
        /\ ret.val[1].currentMultiplier >= One)
          => calibrationMultiplier'[findById(ret.val[1].rateCardId)]
                = C21_AdditiveAlone(ret.val[1])]_vars

\* A result for a card above 1.0 whose proposal the pre-clamp had cut was
\* applied, and the stored value is the one the additive clamp alone gives.
C21_Witness ==
    /\ ret.op = "applyCalibrations"
    /\ Len(ret.val) = 1
    /\ ret.val[1].applied
    /\ ret.val[1].currentMultiplier > One
    /\ ret.val[1].suggestedMultiplier
          # dampenedProposal(ret.val[1].currentMultiplier,
                             ret.val[1].varianceData.estimatedTotal,
                             ret.val[1].varianceData.realTotal)
    /\ calibrationMultiplier[findById(ret.val[1].rateCardId)] = C21_AdditiveAlone(ret.val[1])
    /\ calibrationMultiplier[findById(ret.val[1].rateCardId)] # ret.val[1].suggestedMultiplier

(***************************************************************************)
(* Properties of calculateFromOperations.                                  *)
(***************************************************************************)
\* The usage groups of the operations last priced, and their estimates on
\* the registry as it is (calculateFromOperations leaves it alone).
EstimateGroups == aggregateOperations(ret.operations)

EstimateOf(g) == calculateCost(EstimateGroups[g], TRUE)

\* The (group, rule) pairs with a breakdown entry of non-zero cost; with
\* totalled, only those of groups whose estimate total is not zero.
CostedPairs(totalled) ==
    UNION {IF EstimateOf(g) = Null THEN {}
           ELSE {<<g, k>> : k \in {k \in 1..Len(EstimateOf(g).breakdown) :
                                      /\ EstimateOf(g).breakdown[k].cost # 0
                                      /\ totalled => EstimateOf(g).total # 0}} :
           g \in 1..Len(EstimateGroups)}

\* What tells the line items of one (group, rule) pair from the others.
PairSignature(p) ==
    <<createLineItemId("estimate", EstimateGroups[p[1]].provider, EstimateGroups[p[1]].service,
                       Period, EstimateOf(p[1]).breakdown[p[2]].ruleId),
      EstimateGroups[p[1]].tenantId, EstimateGroups[p[1]].feature,
      EstimateGroups[p[1]].operationCount, EstimateOf(p[1]).rateCardId>>

ItemSignature(item) ==
    <<item.id, item.tenantId, item.feature, item.metadata.operationCount, item.rateCardId>>

\* One line item for each pair of pairs and none besides, each an estimate of
\* the period with the rateCardId of its group's card.
OneItemPerPair(items, pairs) ==
    /\ Len(items) = Cardinality(pairs)
    /\ \A p \in pairs :
          Cardinality({i \in 1..Len(items) : ItemSignature(items[i]) = PairSignature(p)})
              = Cardinality({q \in pairs : PairSignature(q) = PairSignature(p)})
    /\ \A i \in 1..Len(items) :
          /\ items[i].source = "estimate"
          /\ items[i].period = Period
          /\ \E p \in pairs : ItemSignature(items[i]) = PairSignature(p)

\* C22 as stated: calculateFromOperations emits exactly one line item for each
\* (usage group, pricing rule) pair whose rule cost in the breakdown is not
\* zero and none for any other pair; every item has source 'estimate', the
\* requested period and the rateCardId of the card resolved for its group.
C22_OneItemPerCostedPair ==
    ret.op = "calculateFromOperations" => OneItemPerPair(ret.val, CostedPairs(FALSE))

\* C22, amended: the same, for the pairs of the groups whose estimate total
\* (the subtotal times the multiplier, rounded) is not zero; a group whose
\* total is zero gives no line item, whatever its rule costs.
C22_OneItemPerCostedPairOfTotalledGroup ==
    ret.op = "calculateFromOperations" => OneItemPerPair(ret.val, CostedPairs(TRUE))

\* Two groups were priced, one of them with a rule of cost zero and a rule
\* of non-zero cost, and line items were emitted on a calibrated card.
C22_Witness ==
    /\ ret.op = "calculateFromOperations"
    /\ Len(EstimateGroups) > 1
    /\ Len(ret.val) > 1
    /\ \E g \in 1..Len(EstimateGroups) :
          /\ EstimateOf(g) # Null
          /\ EstimateOf(g).calibrationMultiplier # One
          /\ \E k \in 1..Len(EstimateOf(g).breakdown) : EstimateOf(g).breakdown[k].cost = 0
          /\ \E k \in 1..Len(EstimateOf(g).breakdown) : <<g, k>> \in CostedPairs(TRUE)

\* The sum of the totalCost of line items, in units of 1/MultDen of the grid.
RECURSIVE C23_SumTotalCost(_)
C23_SumTotalCost(items) ==
    IF items = <<>> THEN 0 ELSE Head(items).totalCost + C23_SumTotalCost(Tail(items))

\* C23 as stated: the multiplier is applied twice, so that the totalCost of
\* the line items of one usage group sum to the group's CostEstimate.total
\* multiplied by the multiplier once more.
C23_SumIsTotalTimesMultiplier ==
    (ret.op = "calculateFromOperations" /\ Len(EstimateGroups) = 1 /\ EstimateOf(1) # Null) =>
        C23_SumTotalCost(ret.val) = EstimateOf(1).total * EstimateOf(1).calibrationMultiplier

\* C23, amended: the multiplier is applied once, to rule costs that carry no
\* multiplier; for a usage group with line items the totalCost sum to the
\* group's subtotal times the multiplier, which is CostEstimate.total before
\* its rounding, so within half a grid unit of CostEstimate.total.
C23_SumIsSubtotalTimesMultiplier ==
    (ret.op = "calculateFromOperations" /\ Len(EstimateGroups) = 1 /\ ret.val # <<>>) =>
        /\ C23_SumTotalCost(ret.val) = EstimateOf(1).subtotal * EstimateOf(1).calibrationMultiplier
        /\ 2 * Abs(C23_SumTotalCost(ret.val) - EstimateOf(1).total * MultDen) <= MultDen

\* One group was priced into line items on a card calibrated below 1.
C23_Witness ==
    /\ ret.op = "calculateFromOperations"
    /\ Len(EstimateGroups) = 1
    /\ ret.val # <<>>
    /\ EstimateOf(1).calibrationMultiplier < One
    /\ EstimateOf(1).calibrationMultiplier > 0
    /\ EstimateOf(1).subtotal > 1

(***************************************************************************)
(* The direction of rounding.                                              *)
(***************************************************************************)
\* Twice the distance from the rounded value to the value rounded, in
\* 1/PriceDen grid units: PriceDen for an exact tie, less for any other value.
C24_TwiceDistance == 2 * Abs(ret.val * PriceDen - ret.value)

\* C24 as stated: round returns the multiple of 10^-precision nearest to the
\* unrounded value, with exact ties resolved away from zero, for negative as
\* well as positive values.
C24_NearestTiesAwayFromZero ==
    ret.op = "round" =>
        /\ C24_TwiceDistance <= PriceDen
        /\ C24_TwiceDistance = PriceDen => Abs(ret.val * PriceDen) > Abs(ret.value)

\* C24, amended: round returns the multiple of 10^-precision nearest to the
\* unrounded value, with exact ties resolved toward positive infinity: away
\* from zero for positive values, toward zero for negative values.
C24_NearestTiesUp ==
    ret.op = "round" =>
        /\ C24_TwiceDistance <= PriceDen
        /\ C24_TwiceDistance = PriceDen => ret.val * PriceDen > ret.value

\* A negative exact tie was rounded, to the grid value above it.
C24_Witness ==
    /\ ret.op = "round"
    /\ ret.value < -PriceDen
    /\ C24_TwiceDistance = PriceDen
    /\ ret.val * PriceDen > ret.value

(***************************************************************************)
(* calibrate calls of several callers, in any order.  calibrate is a       *)
(* synchronous method (no await between its read and its write), so the    *)
(* calls of concurrent callers run one whole call after another.           *)
(***************************************************************************)
\* C25: under any interleaving of calibrate calls for one id, each call's
\* read, clamp and write take effect as one step: the value a call stores is
\* the clamp of the value stored just before it, so it is within maxChange of
\* the value it replaces, and no call's update is lost or made on another card.
C25_CallsTakeEffectWhole ==
    [][\A id \in Ids, m \in CalibrateTargets :
         (Calibrate(id, m) /\ id \in DOMAIN cardsById) =>
            LET r == cardsById[id]
                replaced == calibrationMultiplier[r]
            IN  /\ calibrationMultiplier'[r] =
                       Max(replaced - maxMultiplierChange, Min(replaced + maxMultiplierChange, m))
                /\ Abs(calibrationMultiplier'[r] - replaced) <= maxMultiplierChange
                /\ \A other \in CardRefs \ {r} :
                       calibrationMultiplier'[other] = calibrationMultiplier[other]]_vars

\* Two calls toward 2.0 have been stacked on one card, the second from the
\* value the first left.
C25_Witness ==
    /\ ret.op = "calibrate"
    /\ ret.val = TRUE
    /\ \E id \in DOMAIN cardsById :
          calibrationMultiplier[cardsById[id]] = One + 2 * maxMultiplierChange

(***************************************************************************)
(* The sign of the multipliers under the calibration service.              *)
(***************************************************************************)
\* C26: from a registry whose multipliers are all strictly positive, after
\* any sequence of analyzeStatement, applyCalibrations (with any options,
\* results applied again when they are stale included) and resetCalibration
\* calls, every registered card's multiplier is strictly positive.
C26_MultipliersStayPositive ==
    \A id \in DOMAIN cardsById : calibrationMultiplier[cardsById[id]] > 0

\* Results of an analysis have been applied a second time, forced, on a card
\* that two rounds of calibration have brought below 0.8.
C26_Witness ==
    /\ ret.op = "applyCalibrations"
    /\ ret.options = [minConfidence |-> 0, force |-> TRUE]
    /\ \E i \in 1..Len(ret.results) : ret.results[i].applied
    /\ \E i \in 1..Len(ret.val) : ret.val[i].applied
    /\ \E id \in DOMAIN cardsById :
          /\ calibrationMultiplier[cardsById[id]] < One - maxMultiplierChange
          /\ calibrationMultiplier[cardsById[id]] > 0

(***************************************************************************)
(* What applyCalibrations reports against what the registry stores.        *)
(***************************************************************************)
\* C27: whenever applyCalibrations returns a result with applied = true, the
\* registry's multiplier for that card right after that result was applied
\* equals the result's suggestedMultiplier, the value the result's reason
\* reports as the new multiplier.  Stated for the last applied result of each
\* card, after which the call changes that card no more.
C27_AppliedStoresSuggested ==
    ret.op = "applyCalibrations" =>
        \A i \in 1..Len(ret.val) :
            (/\ ret.val[i].applied
             /\ ret.val[i].rateCardId \in DOMAIN cardsById
             /\ \A j \in (i + 1)..Len(ret.val) :
                   ~(ret.val[j].applied /\ ret.val[j].rateCardId = ret.val[i].rateCardId))
                => calibrationMultiplier[cardsById[ret.val[i].rateCardId]]
                       = ret.val[i].suggestedMultiplier

(***************************************************************************)
(* The line items of a returned statement.                                 *)
(***************************************************************************)
\* C28: within one generated statement every line item id is unique: no two
\* items of statement.lineItems share an id, estimated items of one provider,
\* service and rule that belong to different tenant or feature groups included.
C28_LineItemIdsUnique ==
    gen.pc = "returned" =>
        \A i, j \in 1..Len(gen.statement.lineItems) :
            i # j => gen.statement.lineItems[i].id # gen.statement.lineItems[j].id

\* C30: all estimated line items of one returned statement that reference
\* the same rateCardId carry the same metadata.calibrationMultiplier, also
\* when calibrate calls of other flows run at generateStatement's awaits.
C30_OneMultiplierPerCard ==
    gen.pc = "returned" =>
        \A i, j \in 1..Len(gen.statement.estimatedLineItems) :
            gen.statement.estimatedLineItems[i].rateCardId
                    = gen.statement.estimatedLineItems[j].rateCardId
                => gen.statement.estimatedLineItems[i].metadata.calibrationMultiplier
                       = gen.statement.estimatedLineItems[j].metadata.calibrationMultiplier

\* A statement was returned with two estimated items of one card, from two
\* feature groups, and the card was calibrated between their pricing and the
\* return: the card's multiplier is no longer the one the items record.
C30_Witness ==
    /\ gen.pc = "returned"
    /\ ret.op = "processPeriod"
    /\ \E i, j \in 1..Len(gen.statement.estimatedLineItems) :
          /\ i # j
          /\ gen.statement.estimatedLineItems[i].rateCardId
                 = gen.statement.estimatedLineItems[j].rateCardId
          /\ gen.statement.estimatedLineItems[i].feature
                 # gen.statement.estimatedLineItems[j].feature
          /\ \E id \in DOMAIN cardsById :
                /\ id = gen.statement.estimatedLineItems[i].rateCardId
                /\ calibrationMultiplier[cardsById[id]]
                       # gen.statement.estimatedLineItems[i].metadata.calibrationMultiplier

====
